---- MODULE Spec2Model ----
(***************************************************************************)
(* Verification model of open-canvas-bedrock: the routing/dispatch state   *)
(* machine, the artifact edit handlers, and the normalized thread/artifact *)
(* storage backends.                                                       *)
(*                                                                         *)
(* Twelve specifications share the module:                                 *)
(*   SpecRoute   - generatePath followed by the conditional-edge dispatch  *)
(*   SpecHandler - edit handlers run on an input conversation state        *)
(*   Spec        - clients that load a thread, run an edit handler and     *)
(*                 persist the artifact through the thread store           *)
(*   SpecSeq     - the same with a single client, turn after turn          *)
(*   SpecPipe    - one turn through the whole graph: routing, operation,   *)
(*                 web search, follow-up, reflection, cleanup, final fork  *)
(*   SpecAssemble - the sizing of the follow-up and generate prompts       *)
(*   SpecStream  - one client's turns with the generation call streamed    *)
(*   SpecThreads - delete_thread and search_threads on a populated store   *)
(*   SpecMessages - set_thread_messages with a reader and failures         *)
(*   SpecPipeLive - the backend graph of SpecPipe, its steps taken fairly   *)
(*   SpecUpdate  - workers serving create, delete and update-state         *)
(*                 requests on one store                                   *)
(*   SpecShare   - share_run_with_retry                                    *)
(***************************************************************************)
EXTENDS Integers, Sequences, FiniteSets, TLC

VARIABLES
    rt,                \* routing run: input state, result of generatePath, dispatch
    hd,                \* handler run: input state, generation calls, result
    pp,                \* one turn through the graph: node to run, state, stages run
    backend,           \* which thread storage backend the store was built with
    artifacts,         \* MemoryThreadStorage._artifacts / DynamoDB artifacts table
    thread_artifacts,  \* SQLite thread_artifacts table (one row per thread)
    cl,                \* per client or worker: position in its turn or request, thread, snapshot
    appended,          \* history: versions produced by edits and persisted, per thread
    fu,                \* one context assembly for the follow-up or generate prompt
    threads,           \* MemoryThreadStorage._threads / threads table
    messages,          \* MemoryThreadStorage._messages / thread_messages table
    call,              \* the storage or share call in progress and what it returned
    foreign_keys       \* whether the SQLite build enforces foreign keys by default

vars == <<rt, hd, pp, backend, artifacts, thread_artifacts, cl, appended, fu, threads, messages, call, foreign_keys>>

\* Each specification runs some of the components; the variables of the
\* others stay at Unused.
Unused == <<>>

(***************************************************************************)
(* Text is a sequence of one-character strings.                            *)
(***************************************************************************)
Absent == <<"<absent>">>          \* a dict key that is not present
NoIndex == 0                      \* "currentIndex" key not present

Max(a, b) == IF a >= b THEN a ELSE b
Min(a, b) == IF a <= b THEN a ELSE b

\* Python slice s[i:j] for 0 <= i, 0 <= j (clamped to the length)
Slice(s, i, j) ==
    LET lo == Min(i, Len(s))
        hi == Min(j, Len(s))
    IN  IF hi <= lo THEN <<>> ELSE SubSeq(s, lo + 1, hi)

\* dict.get(key, "") on a text field
GetText(f) == IF f = Absent THEN <<>> ELSE f

(***************************************************************************)
(* Artifacts.  An artifact is None or a dict with "contents" and possibly  *)
(* "currentIndex".                                                         *)
(***************************************************************************)
NoArtifact == [present |-> FALSE, currentIndex |-> NoIndex, contents |-> <<>>]
NoContent == [index |-> 0, type |-> "none", fullMarkdown |-> Absent, code |-> Absent]

Artifact(ci, cs) == [present |-> TRUE, currentIndex |-> ci, contents |-> cs]

Indices(a) == {a.contents[i].index : i \in 1..Len(a.contents)}

\* core.utils.get_artifact_content: the current version of an artifact
GetArtifactContent(a) ==
    IF ~a.present \/ a.contents = <<>> THEN NoContent
    ELSE LET hits == {i \in 1..Len(a.contents) : a.contents[i].index = a.currentIndex}
         IN  IF hits # {} THEN a.contents[CHOOSE i \in hits : \A j \in hits : i <= j]
             ELSE a.contents[Len(a.contents)]

IsArtifactCodeContent(c) == c.type = "code"
IsArtifactMarkdownContent(c) == c.type = "text"

(***************************************************************************)
(* Routing.  A flag is TRUE when state.get(<flag>) is truthy.              *)
(***************************************************************************)
FlagNames == {"highlightedCode", "highlightedText", "language", "artifactLength",
              "regenerateWithEmojis", "readingLevel", "addComments", "addLogs",
              "portLanguage", "fixBugs", "customQuickActionId", "webSearchEnabled"}

NoFlags == [f \in FlagNames |-> FALSE]

ThemeFlag(fl) ==
    fl["language"] \/ fl["artifactLength"] \/ fl["regenerateWithEmojis"] \/ fl["readingLevel"]

CodeThemeFlag(fl) ==
    fl["addComments"] \/ fl["addLogs"] \/ fl["portLanguage"] \/ fl["fixBugs"]

\* what the generation service answers to the routing prompt
LLMResponses ==
    {[kind |-> "error", route |-> "", hasReply |-> FALSE]}
    \cup {[kind |-> "json", route |-> r, hasReply |-> FALSE] :
            r \in {"replyToGeneralInput", "rewriteArtifact", "generateArtifact", "other"}}
    \cup {[kind |-> "text", route |-> "", hasReply |-> b] : b \in BOOLEAN}

\* a router that tests the custom quick action before the theme flags
GeneratePathNodeCustomFirst(st) ==
    IF st.flags["highlightedCode"] THEN "updateArtifact"
    ELSE IF st.flags["highlightedText"] THEN "updateHighlightedText"
    ELSE IF st.flags["customQuickActionId"] THEN "customAction"
    ELSE IF ThemeFlag(st.flags) THEN "rewriteArtifactTheme"
    ELSE IF CodeThemeFlag(st.flags) THEN "rewriteCodeArtifactTheme"
    ELSE IF st.flags["webSearchEnabled"] THEN "webSearch"
    ELSE IF st.artifact.present THEN "rewriteArtifact"
    ELSE "generateArtifact"

\* agents/open_canvas/graph.py generate_path_node: the static router
GeneratePathNode(st) ==
    IF st.flags["highlightedCode"] THEN "updateArtifact"
    ELSE IF st.flags["highlightedText"] THEN "updateHighlightedText"
    ELSE IF ThemeFlag(st.flags) THEN "rewriteArtifactTheme"
    ELSE IF CodeThemeFlag(st.flags) THEN "rewriteCodeArtifactTheme"
    ELSE IF st.flags["customQuickActionId"] THEN "customAction"
    ELSE IF st.flags["webSearchEnabled"] THEN "webSearch"
    ELSE IF st.artifact.present THEN "rewriteArtifact"
    ELSE "generateArtifact"

\* a router that takes any route the model names without validating it
DynamicDeterminePathUnvalidated(st, resp) ==
    LET current == IF st.artifact.present THEN GetArtifactContent(st.artifact) ELSE NoContent
        artifact_route == IF current # NoContent THEN "rewriteArtifact"
                          ELSE "generateArtifact"
    IN  CASE resp.kind = "error" -> artifact_route
          [] resp.kind = "json" -> resp.route
          [] OTHER ->
                IF resp.hasReply THEN "replyToGeneralInput" ELSE artifact_route

\* generate_path.py dynamic_determine_path: the route chosen from the model's answer
DynamicDeterminePath(st, resp) ==
    LET current == IF st.artifact.present THEN GetArtifactContent(st.artifact) ELSE NoContent
        hasContent == current # NoContent
        artifact_route == IF hasContent THEN "rewriteArtifact" ELSE "generateArtifact"
        valid_routes == IF hasContent THEN {"rewriteArtifact", "replyToGeneralInput"}
                        ELSE {"generateArtifact", "replyToGeneralInput"}
    IN  CASE resp.kind = "error" -> artifact_route
          [] resp.kind = "json" ->
                IF resp.route \in valid_routes THEN resp.route ELSE artifact_route
          [] OTHER ->
                IF resp.hasReply THEN "replyToGeneralInput" ELSE artifact_route

\* a router that lets the model's answer override the web search flag
GeneratePathAnswerFirst(st, resp) ==
    LET newMsgKeys == IF st.docMessage THEN {"messages", "_messages"} ELSE {}
        explicit(tag) == [next |-> tag, keys |-> {"next"} \cup newMsgKeys]
    IN  IF st.flags["highlightedCode"] THEN explicit("updateArtifact")
        ELSE IF st.flags["highlightedText"] THEN explicit("updateHighlightedText")
        ELSE IF ThemeFlag(st.flags) THEN explicit("rewriteArtifactTheme")
        ELSE IF CodeThemeFlag(st.flags) THEN explicit("rewriteCodeArtifactTheme")
        ELSE IF st.flags["customQuickActionId"] THEN explicit("customAction")
        ELSE IF st.flags["webSearchEnabled"] /\ resp.kind # "json" THEN explicit("webSearch")
        ELSE [next |-> DynamicDeterminePath(st, resp),
              keys |-> {"next"} \cup newMsgKeys
                       \cup (IF ~st.docMessage /\ st.urlContents THEN {"_messages"} ELSE {})]

\* generate_path.py generate_path: [next, keys of the state it updates]
GeneratePath(st, resp) ==
    LET newMsgKeys == IF st.docMessage THEN {"messages", "_messages"} ELSE {}
        explicit(tag) == [next |-> tag, keys |-> {"next"} \cup newMsgKeys]
    IN  IF st.flags["highlightedCode"] THEN explicit("updateArtifact")
        ELSE IF st.flags["highlightedText"] THEN explicit("updateHighlightedText")
        ELSE IF ThemeFlag(st.flags) THEN explicit("rewriteArtifactTheme")
        ELSE IF CodeThemeFlag(st.flags) THEN explicit("rewriteCodeArtifactTheme")
        ELSE IF st.flags["customQuickActionId"] THEN explicit("customAction")
        ELSE IF st.flags["webSearchEnabled"] THEN explicit("webSearch")
        ELSE [next |-> DynamicDeterminePath(st, resp),
              keys |-> {"next"} \cup newMsgKeys
                       \cup (IF ~st.docMessage /\ st.urlContents THEN {"_messages"} ELSE {})]

\* the generatePath node of each application's graph
RouterOf(app, st, resp) ==
    IF app = "agents" THEN [next |-> GeneratePathNode(st), keys |-> {"next"}]
    ELSE GeneratePath(st, resp)

\* the path map of add_conditional_edges("generatePath", route_node, {...})
RouteTable(app) ==
    IF app = "agents"
    THEN {"updateArtifact", "rewriteArtifactTheme", "rewriteCodeArtifactTheme",
          "replyToGeneralInput", "generateArtifact", "rewriteArtifact", "customAction",
          "updateHighlightedText", "webSearch"}
    ELSE {"rewriteArtifactTheme", "replyToGeneralInput", "generateArtifact",
          "rewriteArtifact", "customAction", "updateHighlightedText", "webSearch"}

Apps == {"agents", "backend"}

SampleText == [index |-> 1, type |-> "text", fullMarkdown |-> <<"a">>, code |-> Absent]

RouteArtifacts == {NoArtifact, Artifact(NoIndex, <<>>), Artifact(1, <<SampleText>>)}

RouteStates ==
    [flags : [FlagNames -> BOOLEAN], artifact : RouteArtifacts,
     docMessage : BOOLEAN, urlContents : BOOLEAN]

RtIdle == [pc |-> "off", app |-> "agents",
           st |-> [flags |-> NoFlags, artifact |-> NoArtifact,
                   docMessage |-> FALSE, urlContents |-> FALSE],
           next |-> "", keys |-> {}, node |-> "", err |-> ""]

RouteInit ==
    \E app \in Apps, st \in RouteStates :
        rt = [RtIdle EXCEPT !.pc = "start", !.app = app, !.st = st]

\* the generatePath node runs; the generation service answers resp
RouteGeneratePath ==
    /\ rt.pc = "start"
    /\ \E resp \in LLMResponses :
         LET res == RouterOf(rt.app, rt.st, resp)
         IN  rt' = [rt EXCEPT !.pc = "routed", !.next = res.next, !.keys = res.keys]
    /\ UNCHANGED <<hd, pp, backend, artifacts, thread_artifacts, cl, appended, fu, threads, messages, call, foreign_keys>>

\* route_node and the conditional edge: the node the graph runs next
RouteNode ==
    /\ rt.pc = "routed"
    /\ rt' = IF rt.next = ""
             THEN [rt EXCEPT !.pc = "error", !.err = "'next' state field not set."]
             ELSE IF rt.next \in RouteTable(rt.app)
             THEN [rt EXCEPT !.pc = "dispatched", !.node = rt.next]
             ELSE [rt EXCEPT !.pc = "error", !.err = "unhandled route"]
    /\ UNCHANGED <<hd, pp, backend, artifacts, thread_artifacts, cl, appended, fu, threads, messages, call, foreign_keys>>

RouteNext == RouteGeneratePath \/ RouteNode

(***************************************************************************)
(* Edit handlers.  Each handler is modelled in two parts, split at its     *)
(* only suspension point (the call to the generation service): the checks  *)
(* made before the call, and what it builds from the generated text.       *)
(***************************************************************************)
MaxLen == 2          \* longest document text drawn as an input
MaxGenLen == 1       \* longest generated text
MaxTurns == 1        \* edit turns run on one conversation state
MARGIN == 500        \* context characters sent on each side of a code highlight

Alphabet == {"a", "b"}

RECURSIVE TextsOfLen(_)
TextsOfLen(n) ==
    IF n = 0 THEN {<<>>}
    ELSE {Append(t, ch) : t \in TextsOfLen(n - 1), ch \in Alphabet}

Texts(n) == UNION {TextsOfLen(k) : k \in 0..n}

GenTexts == Texts(MaxGenLen)

\* whether block occurs in text at 1-based position p
OccursAt(text, block, p) ==
    /\ p + Len(block) - 1 <= Len(text)
    /\ \A k \in 1..Len(block) : text[p + k - 1] = block[k]

\* Python "block in text"
Contains(text, block) == \E p \in 1..(Len(text) + 1) : OccursAt(text, block, p)

\* Python text.replace(block, repl): every non-overlapping occurrence, left to right
RECURSIVE ReplaceFrom(_, _, _, _)
ReplaceFrom(text, block, repl, p) ==
    IF block = <<>>
    THEN IF p > Len(text) THEN repl
         ELSE repl \o <<text[p]>> \o ReplaceFrom(text, block, repl, p + 1)
    ELSE IF p > Len(text) THEN <<>>
         ELSE IF OccursAt(text, block, p)
              THEN repl \o ReplaceFrom(text, block, repl, p + Len(block))
              ELSE <<text[p]>> \o ReplaceFrom(text, block, repl, p + 1)

Replace(text, block, repl) == ReplaceFrom(text, block, repl, 1)

HandlerNodes == {"generateArtifact", "rewriteArtifact", "updateArtifact",
                 "updateHighlightedText", "rewriteArtifactTheme", "customAction"}

NoHighlightedCode == [present |-> FALSE, startCharIndex |-> 0, endCharIndex |-> 0]
NoHighlightedText == [present |-> FALSE, markdownBlock |-> <<>>, fullMarkdown |-> <<>>]

ThemeFlagNames == {"language", "readingLevel", "artifactLength", "regenerateWithEmojis"}

\* a theme transform that looks at the length flag before the reading level
ThemePromptLengthFirst(th) ==
    IF "language" \in th THEN "CHANGE_ARTIFACT_LANGUAGE_PROMPT"
    ELSE IF "artifactLength" \in th THEN "CHANGE_ARTIFACT_LENGTH_PROMPT"
    ELSE IF "readingLevel" \in th THEN "CHANGE_ARTIFACT_READING_LEVEL_PROMPT"
    ELSE IF "regenerateWithEmojis" \in th THEN "ADD_EMOJIS_TO_ARTIFACT_PROMPT"
    ELSE ""

\* rewrite_artifact_theme_node: the prompt chosen from the theme flags th that are
\* set ("" when none is); the pirate reading level has a prompt of its own, chosen
\* in the reading-level branch
ThemePrompt(th) ==
    IF "language" \in th THEN "CHANGE_ARTIFACT_LANGUAGE_PROMPT"
    ELSE IF "readingLevel" \in th THEN "CHANGE_ARTIFACT_READING_LEVEL_PROMPT"
    ELSE IF "artifactLength" \in th THEN "CHANGE_ARTIFACT_LENGTH_PROMPT"
    ELSE IF "regenerateWithEmojis" \in th THEN "ADD_EMOJIS_TO_ARTIFACT_PROMPT"
    ELSE ""

\* the part of the conversation state and config a handler reads besides the artifact
NoInput == [highlightedCode |-> NoHighlightedCode, highlightedText |-> NoHighlightedText,
            theme |-> {}, actionId |-> FALSE, actionFound |-> FALSE,
            hasHuman |-> TRUE, lastIsHuman |-> TRUE]

CurrentContent(art) == IF art.present THEN GetArtifactContent(art) ELSE NoContent

\* a handler that never tests for a missing artifact
ArtifactMissingUnchecked(current) == FALSE

\* "if not current_artifact_content: raise ValueError('No artifact found')"
ArtifactMissing(current) == current = NoContent

\* the checks a handler makes before it calls the generation service: "" or the error
Precheck(node, art, inp) ==
    LET current == CurrentContent(art)
    IN  CASE node = "generateArtifact" -> ""
          [] node = "rewriteArtifact" ->
                IF ArtifactMissing(current) THEN "No artifact found"
                ELSE IF ~inp.hasHuman THEN "No recent human message found"
                ELSE ""
          [] node = "updateArtifact" ->
                IF ArtifactMissing(current) THEN "No artifact found"
                ELSE IF ~IsArtifactCodeContent(current) THEN "Current artifact content is not code"
                ELSE IF ~inp.highlightedCode.present
                     THEN "Cannot partially regenerate an artifact without a highlight"
                ELSE IF ~inp.hasHuman THEN "No recent human message found"
                ELSE ""
          [] node = "updateHighlightedText" ->
                IF ArtifactMissing(current) THEN "No artifact found"
                ELSE IF ~IsArtifactMarkdownContent(current) THEN "Artifact is not markdown content"
                ELSE IF ~inp.highlightedText.present
                     THEN "Cannot partially regenerate an artifact without a highlight"
                ELSE IF ~inp.lastIsHuman THEN "Expected a human message"
                ELSE ""
          [] node = "rewriteArtifactTheme" ->
                IF ArtifactMissing(current) THEN "No artifact found"
                ELSE IF ~IsArtifactMarkdownContent(current)
                     THEN "Current artifact content is not markdown"
                ELSE IF ThemePrompt(inp.theme) = "" THEN "No theme selected"
                ELSE ""
          [] OTHER ->
                IF ~inp.actionId THEN "No custom quick action ID found."
                ELSE IF ~inp.actionFound THEN "No custom quick action found"
                ELSE ""

\* update_artifact_node: the window of code sent to the generation service
CodeWindow(code, hc) ==
    LET start == Max(0, hc.startCharIndex - MARGIN)
        end == Min(Len(code), hc.endCharIndex + MARGIN)
    IN  [beforeHighlight |-> Slice(code, start, hc.startCharIndex),
         highlightedText |-> Slice(code, hc.startCharIndex, hc.endCharIndex),
         afterHighlight |-> Slice(code, hc.endCharIndex, end)]

\* a splice that writes back the context window instead of the whole document
SpliceCodeWindow(code, hc, content) ==
    CodeWindow(code, hc).beforeHighlight \o content \o CodeWindow(code, hc).afterHighlight

\* update_artifact_node: the generated text spliced over the highlighted range
SpliceCode(code, hc, content) ==
    Slice(code, 0, hc.startCharIndex) \o content \o Slice(code, hc.endCharIndex, Len(code))

\* new_index = len(contents) + 1
NewIndex(contents) == Len(contents) + 1

\* the artifact a handler returns: {**artifact, currentIndex, contents + [new]}
WithNewContent(art, new) ==
    [art EXCEPT !.currentIndex = new.index, !.contents = Append(art.contents, new)]

HandlerOk(art) == [err |-> "", artifact |-> art]
HandlerErr(msg, art) == [err |-> msg, artifact |-> art]

\* generate_artifact_node: a fresh artifact with one version and no currentIndex
GenerateArtifact(text) ==
    [present |-> TRUE, currentIndex |-> NoIndex,
     contents |-> <<[index |-> 1, type |-> "text", fullMarkdown |-> text, code |-> Absent]>>]

\* rewrite_artifact_utils.create_new_artifact_content with artifact_type "text"
CreateNewArtifactContent(art, text) ==
    [index |-> NewIndex(art.contents), type |-> "text", fullMarkdown |-> text, code |-> Absent]

\* update_highlighted_text_node after the stream: prev content, block check, replace
UpdateHighlightedText(art, ht, text) ==
    LET contents == art.contents
        current_index == IF art.currentIndex = NoIndex THEN Len(contents) ELSE art.currentIndex
        hits == {i \in 1..Len(contents) :
                    contents[i].index = current_index /\ contents[i].type = "text"}
    IN  IF hits = {} THEN HandlerErr("Previous content not found", art)
        ELSE IF ~Contains(ht.fullMarkdown, ht.markdownBlock)
        THEN HandlerErr("Selected text not found in current content", art)
        ELSE LET prev == contents[CHOOSE i \in hits : \A j \in hits : i <= j]
             IN  HandlerOk(WithNewContent(art,
                    [prev EXCEPT !.index = NewIndex(contents),
                                 !.fullMarkdown = Replace(ht.fullMarkdown, ht.markdownBlock, text)]))

\* a custom action that insists on an artifact to apply its result to
CustomActionResultStrict(art, text) ==
    IF CurrentContent(art) = NoContent THEN HandlerErr("No artifact found", art)
    ELSE HandlerOk(WithNewContent(art,
            [CurrentContent(art) EXCEPT !.index = NewIndex(art.contents),
                                        !.fullMarkdown = text]))

\* custom_action_node after the stream: "if not current_artifact_content: return {}"
CustomActionResult(art, text) ==
    IF CurrentContent(art) = NoContent THEN HandlerOk(art)
    ELSE HandlerOk(WithNewContent(art,
            [CurrentContent(art) EXCEPT !.index = NewIndex(art.contents),
                                        !.fullMarkdown = text]))

\* what a handler builds once the generation service has returned text
Finish(node, art, inp, text) ==
    LET current == CurrentContent(art)
    IN  CASE node = "generateArtifact" -> HandlerOk(GenerateArtifact(text))
          [] node = "rewriteArtifact" ->
                HandlerOk(WithNewContent(art, CreateNewArtifactContent(art, text)))
          [] node = "updateArtifact" ->
                HandlerOk(WithNewContent(art,
                    [current EXCEPT !.index = NewIndex(art.contents),
                                    !.code = SpliceCode(GetText(current.code),
                                                        inp.highlightedCode, text)]))
          [] node = "updateHighlightedText" ->
                UpdateHighlightedText(art, inp.highlightedText, text)
          [] node = "rewriteArtifactTheme" ->
                HandlerOk(WithNewContent(art,
                    [current EXCEPT !.index = NewIndex(art.contents), !.fullMarkdown = text]))
          [] OTHER -> CustomActionResult(art, text)

(***************************************************************************)
(* One conversation state on which edit handlers run, turn after turn.     *)
(***************************************************************************)
MaxStoredIndex == 2  \* highest version index of an artifact loaded at the start
MaxBlockLen == 1     \* longest highlighted markdown block

TextContent(i, body) == [index |-> i, type |-> "text", fullMarkdown |-> body, code |-> Absent]
CodeContent(i, body) == [index |-> i, type |-> "code", fullMarkdown |-> Absent, code |-> body]

\* a code document longer than the context margin
LongCode == [k \in 1..(MARGIN + MaxLen + 1) |-> IF k % 2 = 1 THEN "a" ELSE "b"]

\* an artifact as ThreadStore.get returns it: the latest version alone
LoadedArtifacts ==
    {Artifact(n, <<TextContent(n, b)>>) : n \in 1..MaxStoredIndex, b \in GenTexts}
    \cup {Artifact(n, <<CodeContent(n, b)>>) :
            n \in 1..MaxStoredIndex, b \in Texts(MaxLen) \cup {LongCode}}

\* highlights near the start of the code, and highlights further in than the margin
HighlightedCodes ==
    {NoHighlightedCode}
    \cup {[present |-> TRUE, startCharIndex |-> s, endCharIndex |-> e] :
            s \in 0..MaxLen, e \in 0..MaxLen}
    \cup {[present |-> TRUE, startCharIndex |-> MARGIN + s, endCharIndex |-> MARGIN + e] :
            s \in 1..MaxLen, e \in 1..MaxLen}

\* highlighted blocks in documents that are empty or of the longest length
HighlightedTexts ==
    {NoHighlightedText}
    \cup {[present |-> TRUE, markdownBlock |-> b, fullMarkdown |-> f] :
            b \in Texts(MaxBlockLen), f \in TextsOfLen(MaxLen) \cup {<<>>}}

HdIdle == [pc |-> "off", node |-> "", artifact |-> NoArtifact, prev |-> NoArtifact,
           inp |-> NoInput, text |-> <<>>, genCalls |-> 0, err |-> "", turns |-> 0,
           prompt |-> ""]

HandlerInit ==
    \E a \in {NoArtifact} \cup LoadedArtifacts :
        hd = [HdIdle EXCEPT !.pc = "idle", !.artifact = a, !.prev = a]

\* a handler starts: it fails one of its checks, or calls the generation service
HandlerBegin(node, inp) ==
    LET e == Precheck(node, hd.artifact, inp)
    IN  IF e # ""
        THEN [hd EXCEPT !.pc = "failed", !.node = node, !.err = e, !.turns = @ + 1]
        ELSE [hd EXCEPT !.pc = "generating", !.node = node, !.inp = inp,
                        !.genCalls = 1, !.turns = @ + 1,
                        !.prompt = IF node = "rewriteArtifactTheme"
                                   THEN ThemePrompt(inp.theme) ELSE ""]

HandlerReady == hd.pc = "idle" /\ hd.turns < MaxTurns

\* generate is dispatched by the routers only for a state without a current version
GenerateArtifactNode ==
    /\ HandlerReady
    /\ CurrentContent(hd.artifact) = NoContent
    /\ hd' = HandlerBegin("generateArtifact", NoInput)
    /\ UNCHANGED <<rt, pp, backend, artifacts, thread_artifacts, cl, appended, fu, threads, messages, call, foreign_keys>>

RewriteArtifactNode ==
    /\ HandlerReady
    /\ \E h \in BOOLEAN :
         hd' = HandlerBegin("rewriteArtifact", [NoInput EXCEPT !.hasHuman = h])
    /\ UNCHANGED <<rt, pp, backend, artifacts, thread_artifacts, cl, appended, fu, threads, messages, call, foreign_keys>>

UpdateArtifactNode ==
    /\ HandlerReady
    /\ \E hc \in HighlightedCodes, h \in BOOLEAN :
         hd' = HandlerBegin("updateArtifact",
                            [NoInput EXCEPT !.highlightedCode = hc, !.hasHuman = h])
    /\ UNCHANGED <<rt, pp, backend, artifacts, thread_artifacts, cl, appended, fu, threads, messages, call, foreign_keys>>

UpdateHighlightedTextNode ==
    /\ HandlerReady
    /\ \E ht \in HighlightedTexts, h \in BOOLEAN :
         hd' = HandlerBegin("updateHighlightedText",
                            [NoInput EXCEPT !.highlightedText = ht, !.lastIsHuman = h])
    /\ UNCHANGED <<rt, pp, backend, artifacts, thread_artifacts, cl, appended, fu, threads, messages, call, foreign_keys>>

RewriteArtifactThemeNode ==
    /\ HandlerReady
    /\ \E th \in SUBSET ThemeFlagNames :
         hd' = HandlerBegin("rewriteArtifactTheme", [NoInput EXCEPT !.theme = th])
    /\ UNCHANGED <<rt, pp, backend, artifacts, thread_artifacts, cl, appended, fu, threads, messages, call, foreign_keys>>

CustomActionNode ==
    /\ HandlerReady
    /\ \E id \in BOOLEAN, found \in BOOLEAN :
         hd' = HandlerBegin("customAction",
                            [NoInput EXCEPT !.actionId = id, !.actionFound = found])
    /\ UNCHANGED <<rt, pp, backend, artifacts, thread_artifacts, cl, appended, fu, threads, messages, call, foreign_keys>>

\* the generation call returns its text and the handler builds its result
HandlerStreamDone ==
    /\ hd.pc = "generating"
    /\ \E text \in GenTexts :
         LET res == Finish(hd.node, hd.artifact, hd.inp, text)
         IN  hd' = [hd EXCEPT !.pc = IF res.err = "" THEN "done" ELSE "failed",
                              !.err = res.err, !.text = text,
                              !.prev = hd.artifact, !.artifact = res.artifact]
    /\ UNCHANGED <<rt, pp, backend, artifacts, thread_artifacts, cl, appended, fu, threads, messages, call, foreign_keys>>

\* the turn is over; the next request carries the artifact the state now holds
HandlerNextTurn ==
    /\ hd.pc \in {"done", "failed"}
    /\ hd' = [hd EXCEPT !.pc = "idle", !.node = "", !.inp = NoInput, !.text = <<>>,
                        !.genCalls = 0, !.err = "", !.prev = hd.artifact, !.prompt = ""]
    /\ UNCHANGED <<rt, pp, backend, artifacts, thread_artifacts, cl, appended, fu, threads, messages, call, foreign_keys>>

HandlerNext ==
    \/ GenerateArtifactNode
    \/ RewriteArtifactNode
    \/ UpdateArtifactNode
    \/ UpdateHighlightedTextNode
    \/ RewriteArtifactThemeNode
    \/ CustomActionNode
    \/ HandlerStreamDone
    \/ HandlerNextTurn

(***************************************************************************)
(* One turn through the graph.  The operation handlers are abstracted to   *)
(* their outcome (SpecHandler has their contents); the artifact is one of  *)
(* RouteArtifacts.  messages / _messages are tracked by what the turn      *)
(* appends to them; the request's own message list is drawn when the final *)
(* fork first reads it.                                                    *)
(***************************************************************************)
MaxFlags == 2        \* most command flags set in one request
MaxMsgs == 4         \* most messages in the request's conversation
MaxUsers == 2        \* most user messages among them
MaxMsgLen == 1       \* longest message appended to _messages during the turn

CHARACTER_MAX == 300000

PipeFlagSets == {fl \in [FlagNames -> BOOLEAN] :
                    Cardinality({f \in FlagNames : fl[f]}) <= MaxFlags}

\* transcript sizes at and around the summarization threshold
CharSizes == {0} \cup ((CHARACTER_MAX - MaxMsgLen)..(CHARACTER_MAX + 1))

Outcomes == {"ok", "raise"}

OperationNodes == {"generateArtifact", "rewriteArtifact", "rewriteArtifactTheme",
                   "rewriteCodeArtifactTheme", "updateArtifact", "updateHighlightedText",
                   "customAction", "replyToGeneralInput"}

IncludesArtifacts(artifact) == artifact.present /\ artifact.contents # <<>>

\* a post-search router that looks at the presence of the artifact only
RoutePostWebSearchByPresence(artifact, results) ==
    [next |-> IF artifact.present THEN "rewriteArtifact" ELSE "generateArtifact",
     webSearchEnabled |-> FALSE,
     message |-> results]

\* route_post_web_search: results is "webSearchResults is non-empty"
RoutePostWebSearch(artifact, results) ==
    [next |-> IF IncludesArtifacts(artifact) THEN "rewriteArtifact" ELSE "generateArtifact",
     webSearchEnabled |-> FALSE,
     message |-> results]

\* an edge that leads from the follow-up back to itself
RouteAfterFollowupAgain(assistantId) ==
    IF ~assistantId THEN "cleanState" ELSE "generateFollowup"

\* routing.py route_after_followup
RouteAfterFollowup(assistantId) == IF ~assistantId THEN "cleanState" ELSE "reflect"

\* backend graph: the edge out of each node that has a fixed successor
BackendEdge(node) ==
    CASE node \in {"generateArtifact", "updateHighlightedText", "rewriteArtifact",
                   "rewriteArtifactTheme", "customAction"} -> "generateFollowup"
      [] node = "webSearch" -> "routePostWebSearch"
      [] node = "replyToGeneralInput" -> "generateFollowup"
      [] node = "reflect" -> "cleanState"
      [] OTHER -> "END"

\* agents graph: the edge out of each node that has a fixed successor
AgentsEdge(node) ==
    CASE node \in {"generateArtifact", "updateArtifact", "updateHighlightedText",
                   "rewriteArtifact", "rewriteArtifactTheme", "rewriteCodeArtifactTheme",
                   "customAction"} -> "generateFollowup"
      [] node = "webSearch" -> "routePostWebSearch"
      [] node = "replyToGeneralInput" -> "cleanState"
      [] node = "generateFollowup" -> "reflect"
      [] node = "reflect" -> "cleanState"
      [] OTHER -> "END"

\* the node that follows node in the graph of app
EdgeAfter(app, node, assistantId) ==
    IF app = "agents" THEN AgentsEdge(node)
    ELSE IF node = "generateFollowup" THEN RouteAfterFollowup(assistantId)
    ELSE BackendEdge(node)

\* reflection graph: it needs the assistant id, and its tool call may fail
ReflectionGraph(assistantId, outcome) == IF ~assistantId THEN "raise" ELSE outcome

\* agents reflect_node: the reflection graph is awaited unguarded
AgentsReflectNode(assistantId, outcome) ==
    [ran |-> TRUE,
     raised |-> ReflectionGraph(assistantId, outcome) = "raise",
     failed |-> ReflectionGraph(assistantId, outcome) = "raise"]

\* backend reflect_node: skipped without an assistant id, exceptions swallowed
BackendReflectNode(assistantId, outcome) ==
    IF ~assistantId THEN [ran |-> FALSE, raised |-> FALSE, failed |-> FALSE]
    ELSE [ran |-> TRUE,
          raised |-> ReflectionGraph(assistantId, outcome) = "raise",
          failed |-> FALSE]

ReflectNode(app, assistantId, outcome) ==
    IF app = "agents" THEN AgentsReflectNode(assistantId, outcome)
    ELSE BackendReflectNode(assistantId, outcome)

\* agents clean_state_node
AgentsCleanState(flags) == [f \in FlagNames |-> FALSE]

\* backend clean_state_node: the keys of cleaned_state
BackendCleanState(flags) ==
    [f \in FlagNames |->
        IF f \in {"highlightedText", "language", "artifactLength", "regenerateWithEmojis",
                  "readingLevel", "customQuickActionId", "webSearchEnabled"}
        THEN FALSE ELSE flags[f]]

CleanState(app, flags) ==
    IF app = "agents" THEN AgentsCleanState(flags) ELSE BackendCleanState(flags)

SimpleTokenCalculator(chars) == IF chars > CHARACTER_MAX THEN "summarizer" ELSE "END"

\* agents conditionally_generate_title
ConditionallyGenerateTitle(msgs, chars) ==
    IF msgs > 2 THEN SimpleTokenCalculator(chars) ELSE "generateTitle"

\* backend clean_state_node: _next_route
BackendNextRoute(artifact, msgs, users, chars) ==
    IF artifact.present /\ users = 1 THEN "generateTitle"
    ELSE IF msgs <= 4 THEN "generateTitle"
    ELSE IF chars > CHARACTER_MAX THEN "summarizer"
    ELSE "END"

FinalFork(app, artifact, msgs, users, chars) ==
    IF app = "agents" THEN ConditionallyGenerateTitle(msgs, chars)
    ELSE BackendNextRoute(artifact, msgs, users, chars)

\* a title stage that lets the title graph's exception escape
GenerateTitleNodeUnguarded(threadId, outcome) ==
    IF ~threadId THEN [called |-> FALSE, raised |-> FALSE, failed |-> FALSE, title |-> FALSE]
    ELSE IF outcome = "raise"
    THEN [called |-> TRUE, raised |-> TRUE, failed |-> TRUE, title |-> FALSE]
    ELSE [called |-> TRUE, raised |-> FALSE, failed |-> FALSE, title |-> outcome = "title"]

\* backend generate_title_node; outcome is what the thread_title graph does
GenerateTitleNode(threadId, outcome) ==
    IF ~threadId THEN [called |-> FALSE, raised |-> FALSE, failed |-> FALSE, title |-> FALSE]
    ELSE IF outcome = "raise"
    THEN [called |-> TRUE, raised |-> TRUE, failed |-> FALSE, title |-> FALSE]
    ELSE [called |-> TRUE, raised |-> FALSE, failed |-> FALSE, title |-> outcome = "title"]

\* agents generate_title_node: skips a conversation of more than two messages and
\* never returns the title
AgentsGenerateTitleNode(msgs, threadId, outcome) ==
    IF msgs > 2 \/ ~threadId
    THEN [called |-> FALSE, raised |-> FALSE, failed |-> FALSE, title |-> FALSE]
    ELSE [called |-> TRUE, raised |-> outcome = "raise", failed |-> FALSE, title |-> FALSE]

TitleOutcomes == {"title", "none", "raise"}

\* how a generation call can end: a response, the service's "input is too
\* long" error, or another error
ModelOutcomes == {"response", "too long", "error"}

\* agents graph: generate_followup_node has no except clause
AgentsFollowupReply(outcome) ==
    IF outcome = "response"
    THEN [reply |-> "response", raised |-> "none"]
    ELSE [reply |-> "none", raised |-> outcome]

\* a follow-up that answers every failure of the call with the apology
FollowupReplySwallowAll(outcome) ==
    IF outcome = "response"
    THEN [reply |-> "response", raised |-> "none"]
    ELSE [reply |-> "apology", raised |-> "none"]

\* backend graph: what generate_followup_node makes of the outcome of
\* model.ainvoke
FollowupReply(outcome) ==
    CASE outcome = "response" -> [reply |-> "response", raised |-> "none"]
      [] outcome = "too long" -> [reply |-> "apology", raised |-> "none"]
      [] OTHER -> [reply |-> "none", raised |-> outcome]

\* whether generatePath asks the model for the route
RoutingUsesModel(app, st) ==
    /\ app = "backend"
    /\ ~st.flags["highlightedCode"]
    /\ ~st.flags["highlightedText"]
    /\ ~ThemeFlag(st.flags)
    /\ ~CodeThemeFlag(st.flags)
    /\ ~st.flags["customQuickActionId"]
    /\ ~st.flags["webSearchEnabled"]

\* how the web search graph can end: its model calls (classifyMessage,
\* queryGenerator) raise, the search API call raises, or results come back
SearchOutcomes == {"model error", "search error", "empty", "results"}

\* web search graph: [raised, webSearchResults non-empty]
WebSearchGraph(outcome) ==
    CASE outcome = "model error" -> [raised |-> TRUE, results |-> FALSE]
      [] outcome = "search error" -> [raised |-> FALSE, results |-> FALSE]
      [] outcome = "empty" -> [raised |-> FALSE, results |-> FALSE]
      [] OTHER -> [raised |-> FALSE, results |-> TRUE]

PpSnapshot(p) == [artifact |-> p.artifact, added |-> p.added, addedChars |-> p.addedChars,
                  flags |-> p.flags]

PpIdle == [pc |-> "off", app |-> "agents", flags |-> NoFlags, artifact |-> NoArtifact,
           assistantId |-> FALSE, threadId |-> FALSE, next |-> "", op |-> "",
           results |-> FALSE, synth |-> FALSE, added |-> 0, addedChars |-> 0,
           msgs |-> 0, users |-> 0, chars |-> 0, fork |-> "",
           trace |-> <<>>, status |-> "running",
           reflectRaised |-> FALSE, titleRaised |-> FALSE, title |-> FALSE,
           followup |-> "none", followupOutcome |-> "none", faults |-> {},
           snap |-> [artifact |-> NoArtifact, added |-> 0, addedChars |-> 0,
                     flags |-> NoFlags]]

PipeInit ==
    \E app \in Apps, fl \in PipeFlagSets, a \in RouteArtifacts,
       aid \in BOOLEAN, tid \in BOOLEAN :
        pp = [PpIdle EXCEPT !.pc = "generatePath", !.app = app, !.flags = fl,
                            !.artifact = a, !.assistantId = aid, !.threadId = tid]

PipeFail(p, node) == [p EXCEPT !.pc = "END", !.status = "failed",
                               !.trace = Append(@, node)]

PipeGoto(p, node) == [p EXCEPT !.pc = node,
                               !.status = IF node = "END" THEN "success" ELSE @]

PpRest == <<rt, hd, backend, artifacts, thread_artifacts, cl, appended, fu, threads, messages, call, foreign_keys>>

\* generatePath, then route_node and the conditional edge
PipeGeneratePath ==
    /\ pp.pc = "generatePath"
    /\ \E resp \in LLMResponses :
         LET st == [flags |-> pp.flags, artifact |-> pp.artifact,
                    docMessage |-> FALSE, urlContents |-> FALSE]
             next == RouterOf(pp.app, st, resp).next
             p == [pp EXCEPT !.next = next, !.trace = Append(@, "generatePath"),
                             !.faults = IF RoutingUsesModel(pp.app, st)
                                           /\ resp.kind = "error"
                                        THEN @ \cup {"generatePath"} ELSE @]
         IN  pp' = IF next \in RouteTable(pp.app)
                   THEN [p EXCEPT !.pc = next]
                   ELSE [p EXCEPT !.pc = "END", !.status = "failed"]
    /\ UNCHANGED PpRest

\* whether the handler's own checks let it succeed on this artifact
PipeCanSucceed(node, artifact) ==
    \/ node \in {"generateArtifact", "customAction", "replyToGeneralInput"}
    \/ IncludesArtifacts(artifact)

\* an operation handler runs: it raises, or returns its update
PipeOperation ==
    /\ pp.pc \in OperationNodes
    /\ pp.status = "running"
    /\ \E outcome \in Outcomes :
         IF outcome = "raise" \/ ~PipeCanSucceed(pp.pc, pp.artifact)
         THEN pp' = PipeFail([pp EXCEPT !.faults = @ \cup {pp.pc}], pp.pc)
         ELSE \E len \in 1..MaxMsgLen :
                LET reply == pp.pc = "replyToGeneralInput"
                    made == pp.pc # "replyToGeneralInput"
                            /\ (pp.pc # "customAction" \/ IncludesArtifacts(pp.artifact))
                    p == [pp EXCEPT !.op = pp.pc,
                                    !.trace = Append(@, pp.pc),
                                    !.artifact = IF made THEN Artifact(1, <<SampleText>>) ELSE @,
                                    !.added = IF reply THEN @ + 1 ELSE @,
                                    !.addedChars = IF reply THEN @ + len ELSE @]
                IN  pp' = PipeGoto(p, EdgeAfter(pp.app, pp.pc, pp.assistantId))
    /\ UNCHANGED PpRest

\* webSearch: the web search graph returns webSearchResults, or raises
PipeWebSearch ==
    /\ pp.pc = "webSearch"
    /\ \E outcome \in SearchOutcomes :
         LET r == WebSearchGraph(outcome)
             p == [pp EXCEPT !.faults = IF outcome \in {"model error", "search error"}
                                        THEN @ \cup {"webSearch"} ELSE @]
         IN  pp' = IF r.raised
                   THEN PipeFail(p, "webSearch")
                   ELSE PipeGoto([p EXCEPT !.results = r.results,
                                           !.trace = Append(@, "webSearch")],
                                 EdgeAfter(pp.app, "webSearch", pp.assistantId))
    /\ UNCHANGED PpRest

\* routePostWebSearch and its conditional edge
PipeRoutePostWebSearch ==
    /\ pp.pc = "routePostWebSearch"
    /\ \E len \in 1..MaxMsgLen :
         LET r == RoutePostWebSearch(pp.artifact, pp.results)
         IN  pp' = [pp EXCEPT !.pc = r.next, !.next = r.next,
                              !.flags = [@ EXCEPT !["webSearchEnabled"] = r.webSearchEnabled],
                              !.synth = r.message,
                              !.added = IF r.message THEN @ + 1 ELSE @,
                              !.addedChars = IF r.message THEN @ + len ELSE @,
                              !.trace = Append(@, "routePostWebSearch")]
    /\ UNCHANGED PpRest

\* generateFollowup appends its message to messages, or the model call raises
PipeGenerateFollowup ==
    /\ pp.pc = "generateFollowup"
    /\ \E outcome \in ModelOutcomes :
         LET r == IF pp.app = "agents" THEN AgentsFollowupReply(outcome)
                  ELSE FollowupReply(outcome)
             p == [pp EXCEPT !.followupOutcome = outcome,
                             !.faults = IF outcome = "response" THEN @
                                        ELSE @ \cup {"generateFollowup"}]
         IN  pp' = IF r.raised # "none"
                   THEN PipeFail(p, "generateFollowup")
                   ELSE PipeGoto([p EXCEPT !.added = @ + 1,
                                           !.followup = r.reply,
                                           !.trace = Append(@, "generateFollowup")],
                                 EdgeAfter(pp.app, "generateFollowup", pp.assistantId))
    /\ UNCHANGED PpRest

\* reflect
PipeReflect ==
    /\ pp.pc = "reflect"
    /\ \E outcome \in Outcomes :
         LET r == ReflectNode(pp.app, pp.assistantId, outcome)
             p == [pp EXCEPT !.snap = PpSnapshot(pp), !.reflectRaised = r.raised,
                             !.trace = Append(@, "reflect")]
         IN  pp' = IF r.failed THEN [p EXCEPT !.pc = "END", !.status = "failed"]
                   ELSE PipeGoto(p, EdgeAfter(pp.app, "reflect", pp.assistantId))
    /\ UNCHANGED PpRest

\* cleanState and the conditional edge that follows it
PipeCleanState ==
    /\ pp.pc = "cleanState"
    /\ \E m0 \in 1..MaxMsgs, c0 \in CharSizes :
       \E u0 \in 0..Min(m0, MaxUsers) :
         LET msgs == m0 + pp.added
             chars == c0 + pp.addedChars
             fork == FinalFork(pp.app, pp.artifact, msgs, u0, chars)
             p == [pp EXCEPT !.flags = CleanState(pp.app, pp.flags), !.next = "",
                             !.msgs = msgs, !.users = u0, !.chars = chars,
                             !.fork = fork, !.trace = Append(@, "cleanState")]
         IN  pp' = PipeGoto(p, fork)
    /\ UNCHANGED PpRest

\* generateTitle
PipeGenerateTitle ==
    /\ pp.pc = "generateTitle"
    /\ \E outcome \in TitleOutcomes :
         LET r == IF pp.app = "agents"
                  THEN AgentsGenerateTitleNode(pp.msgs, pp.threadId, outcome)
                  ELSE GenerateTitleNode(pp.threadId, outcome)
             p == [pp EXCEPT !.snap = PpSnapshot(pp), !.titleRaised = r.raised,
                             !.title = r.title, !.trace = Append(@, "generateTitle")]
         IN  pp' = IF r.failed THEN [p EXCEPT !.pc = "END", !.status = "failed"]
                   ELSE PipeGoto(p, EdgeAfter(pp.app, "generateTitle", pp.assistantId))
    /\ UNCHANGED PpRest

\* summarizer: the summarizer graph returns, or raises
PipeSummarizer ==
    /\ pp.pc = "summarizer"
    /\ \/ pp' = PipeFail([pp EXCEPT !.faults = @ \cup {"summarizer"}], "summarizer")
       \/ pp' = PipeGoto([pp EXCEPT !.trace = Append(@, "summarizer")],
                         EdgeAfter(pp.app, "summarizer", pp.assistantId))
    /\ UNCHANGED PpRest

PipeNext ==
    \/ PipeGeneratePath
    \/ PipeOperation
    \/ PipeWebSearch
    \/ PipeRoutePostWebSearch
    \/ PipeGenerateFollowup
    \/ PipeReflect
    \/ PipeCleanState
    \/ PipeGenerateTitle
    \/ PipeSummarizer

(***************************************************************************)
(* Context assembly.  generate_followup_node and generate_artifact_node    *)
(* size the prompt before the generation call.  A text is represented by   *)
(* its length in characters (estimate_input_size); the follow-up handler   *)
(* is split at its suspension point, the call to the generation service.   *)
(***************************************************************************)
MaxOver == 1         \* how far past each threshold the drawn sizes go

MAX_SAFE_INPUT_SIZE == 204800
FOLLOWUP_TEMPLATE_SIZE == 1574
TRUNCATED_NOTICE_SIZE == 66

AssembleNodes == {"generateFollowup", "generateArtifact"}

ReservedSize(node) == IF node = "generateFollowup" THEN 5000 ELSE 2000

\* format_messages(messages, max_length): the transcript cut to max_length
FormatMessages(size, max_length) == Min(size, max_length)

\* truncate_content(content, n): a prefix of n characters
TruncateContent(size, n) == Min(size, n)

\* the size the safety check reads: the formatted template
TotalSize(node, artifact_content, reflections, conversation) ==
    (IF node = "generateFollowup" THEN FOLLOWUP_TEMPLATE_SIZE ELSE 0)
        + artifact_content + reflections + conversation

\* what the handler makes of the three sizes before it calls the model
AssembleFollowup(messages_size, artifact_size, reflections_size) ==
    LET available_for_conversation ==
            MAX_SAFE_INPUT_SIZE - artifact_size - reflections_size
                - ReservedSize("generateFollowup")
        conversation ==
            IF available_for_conversation > 0
            THEN FormatMessages(messages_size, available_for_conversation)
            ELSE TRUNCATED_NOTICE_SIZE
        artifact_content ==
            IF available_for_conversation <= 0
               /\ artifact_size * 10 > MAX_SAFE_INPUT_SIZE * 6
            THEN TruncateContent(artifact_size, MAX_SAFE_INPUT_SIZE \div 2)
            ELSE artifact_size
        total_size == TotalSize("generateFollowup", artifact_content,
                                reflections_size, conversation)
    IN  [ available |-> available_for_conversation,
          conversation |-> conversation,
          artifact_content |-> artifact_content,
          reflections |-> reflections_size,
          total_size |-> total_size,
          degraded |-> available_for_conversation <= 0,
          warned |-> total_size * 10 > MAX_SAFE_INPUT_SIZE * 12 ]

AssembleGenerate(messages_size, reflections_size) ==
    LET available_for_conversation ==
            MAX_SAFE_INPUT_SIZE - reflections_size
                - ReservedSize("generateArtifact")
        conversation ==
            IF available_for_conversation > 0
            THEN FormatMessages(messages_size, available_for_conversation)
            ELSE FormatMessages(messages_size, MAX_SAFE_INPUT_SIZE \div 2)
    IN  [ available |-> available_for_conversation,
          conversation |-> conversation,
          artifact_content |-> 0,
          reflections |-> reflections_size,
          total_size |-> TotalSize("generateArtifact", 0, reflections_size,
                                   conversation),
          degraded |-> available_for_conversation <= 0,
          warned |-> FALSE ]

\* the sizes around which the handlers branch
Thresholds ==
    { 0,
      (MAX_SAFE_INPUT_SIZE * 6) \div 10,
      MAX_SAFE_INPUT_SIZE - ReservedSize("generateFollowup"),
      MAX_SAFE_INPUT_SIZE - ReservedSize("generateArtifact"),
      MAX_SAFE_INPUT_SIZE,
      (MAX_SAFE_INPUT_SIZE * 12) \div 10 }

SizePoints == { t + d : t \in Thresholds, d \in 0..MaxOver }

NoAssembly ==
    [ available |-> 0, conversation |-> 0, artifact_content |-> 0,
      reflections |-> 0, total_size |-> 0, degraded |-> FALSE,
      warned |-> FALSE ]

FuIdle ==
    [ pc |-> "idle", node |-> "generateFollowup",
      messages_size |-> 0, artifact_size |-> 0, reflections_size |-> 0,
      asm |-> NoAssembly, calls |-> 0, reply |-> "none", raised |-> "none" ]

FuRest == <<rt, hd, pp, backend, artifacts, thread_artifacts, cl, appended,
            threads, messages, call, foreign_keys>>

\* the state a handler is entered with; generate_artifact_node reads no
\* artifact
AssembleInit ==
    \E node \in AssembleNodes, m \in SizePoints, a \in SizePoints,
       r \in SizePoints :
        /\ node = "generateArtifact" => a = 0
        /\ fu = [FuIdle EXCEPT !.node = node, !.messages_size = m,
                               !.artifact_size = a, !.reflections_size = r]

\* generate_followup_node up to the model call
FollowupAssemble ==
    /\ fu.pc = "idle"
    /\ fu.node = "generateFollowup"
    /\ fu' = [fu EXCEPT !.pc = "assembled",
                        !.asm = AssembleFollowup(fu.messages_size,
                                    fu.artifact_size, fu.reflections_size)]
    /\ UNCHANGED FuRest

\* generate_artifact_node up to the model call
GenerateAssemble ==
    /\ fu.pc = "idle"
    /\ fu.node = "generateArtifact"
    /\ fu' = [fu EXCEPT !.pc = "assembled",
                        !.asm = AssembleGenerate(fu.messages_size,
                                                 fu.reflections_size)]
    /\ UNCHANGED FuRest

\* generate_followup_node from the model call on
FollowupInvoke ==
    /\ fu.pc = "assembled"
    /\ fu.node = "generateFollowup"
    /\ \E outcome \in ModelOutcomes :
        fu' = [fu EXCEPT !.pc = "done", !.calls = @ + 1,
                         !.reply = FollowupReply(outcome).reply,
                         !.raised = FollowupReply(outcome).raised]
    /\ UNCHANGED FuRest

\* generate_artifact_node from the model call on: no except clause
GenerateInvoke ==
    /\ fu.pc = "assembled"
    /\ fu.node = "generateArtifact"
    /\ \E outcome \in ModelOutcomes :
        fu' = [fu EXCEPT !.pc = "done", !.calls = @ + 1,
                         !.reply = IF outcome = "response" THEN "response"
                                   ELSE "none",
                         !.raised = IF outcome = "response" THEN "none"
                                    ELSE outcome]
    /\ UNCHANGED FuRest

AssembleNext ==
    \/ FollowupAssemble
    \/ GenerateAssemble
    \/ FollowupInvoke
    \/ GenerateInvoke

(***************************************************************************)
(* Thread storage: the artifact part of the three backends, and clients    *)
(* whose turns load a thread, run an edit handler and persist the result.  *)
(***************************************************************************)
MaxEdits == 3        \* edit turns run by all clients together
NumClients == 2      \* clients working at the same time

Threads == {"t1", "t2"}
Clients == 1..NumClients
Backends == {"memory", "sqlite", "dynamodb"}

EmptyVersions == [i \in {} |-> NoArtifact]

\* MemoryThreadStorage.get_thread_artifact_latest: versions[max(versions.keys())]
GetThreadArtifactLatest(versions) ==
    IF DOMAIN versions = {} THEN NoArtifact
    ELSE versions[CHOOSE i \in DOMAIN versions : \A j \in DOMAIN versions : j <= i]

\* one pass of "for content in contents": store a single-version artifact at its index
PutVersion(versions, content) ==
    [i \in DOMAIN versions \cup {content.index} |->
        IF i = content.index THEN Artifact(content.index, <<content>>) ELSE versions[i]]

RECURSIVE PutVersions(_, _)
PutVersions(versions, contents) ==
    IF contents = <<>> THEN versions
    ELSE PutVersions(PutVersion(versions, Head(contents)), Tail(contents))

\* MemoryThreadStorage.set_thread_artifact on one thread's version map
SetThreadArtifact(versions, artifact) ==
    IF artifact.contents = <<>>
    THEN [i \in DOMAIN versions \cup {1} |-> IF i = 1 THEN artifact ELSE versions[i]]
    ELSE PutVersions(versions, artifact.contents)

\* ThreadStore.get: values.artifact as the configured backend returns it
GetArtifact(t) ==
    IF backend = "sqlite" THEN thread_artifacts[t]
    ELSE GetThreadArtifactLatest(artifacts[t])

\* the version indices a thread holds in the store
StoredIndices(t) ==
    IF backend = "sqlite" THEN Indices(thread_artifacts[t])
    ELSE DOMAIN artifacts[t]

\* get_thread_artifact_version: the content stored under index i
StoredVersion(t, i) ==
    IF backend = "sqlite"
    THEN LET a == thread_artifacts[t]
         IN  a.contents[CHOOSE k \in 1..Len(a.contents) : a.contents[k].index = i]
    ELSE artifacts[t][i].contents[1]

\* get_thread_artifact_metadata: version_indices and current_index = max
GetThreadArtifactMetadata(versions) ==
    [version_indices |-> DOMAIN versions,
     current_index |-> IF DOMAIN versions = {} THEN NoIndex
                       ELSE CHOOSE i \in DOMAIN versions : \A j \in DOMAIN versions : j <= i,
     total_versions |-> Cardinality(DOMAIN versions)]

ClIdle == [pc |-> "idle", tid |-> "t1", artifact |-> NoArtifact, pending |-> <<>>,
           turns |-> 0]

RECURSIVE TurnsUpTo(_)
TurnsUpTo(n) == IF n = 0 THEN 0 ELSE cl[n].turns + TurnsUpTo(n - 1)

TotalTurns == TurnsUpTo(NumClients)

MaxClientLen == 1    \* longest highlight text a client of the store sends

\* the inputs a client sends with a turn that runs the given handler
InputsOf(node) ==
    CASE node = "updateArtifact" ->
            {[NoInput EXCEPT !.highlightedCode =
                [present |-> TRUE, startCharIndex |-> s, endCharIndex |-> e]] :
                s \in 0..MaxClientLen, e \in 0..MaxClientLen}
      [] node = "updateHighlightedText" ->
            {[NoInput EXCEPT !.highlightedText =
                [present |-> TRUE, markdownBlock |-> b, fullMarkdown |-> f]] :
                b \in Texts(MaxClientLen), f \in Texts(MaxClientLen)}
      [] node = "rewriteArtifactTheme" -> {[NoInput EXCEPT !.theme = {"language"}]}
      [] node = "customAction" -> {[NoInput EXCEPT !.actionId = TRUE, !.actionFound = TRUE]}
      [] OTHER -> {NoInput}

StoreInit ==
    /\ backend \in Backends
    /\ artifacts = [t \in Threads |-> EmptyVersions]
    /\ thread_artifacts = [t \in Threads |-> NoArtifact]
    /\ cl \in [Clients -> {[ClIdle EXCEPT !.tid = t] : t \in Threads}]
    /\ appended = [t \in Threads |-> 0]

\* ThreadStore.get: the client reloads the thread and takes values.artifact
ClientLoad(c) ==
    /\ cl[c].pc = "idle"
    /\ cl' = [cl EXCEPT ![c].pc = "loaded", ![c].artifact = GetArtifact(cl[c].tid)]
    /\ UNCHANGED <<rt, hd, pp, backend, artifacts, thread_artifacts, appended, fu, threads, messages, call, foreign_keys>>

\* one turn of the graph on the loaded artifact: a handler that appends a version
ClientEdit(c) ==
    /\ cl[c].pc = "loaded"
    /\ TotalTurns < MaxEdits
    /\ \E node \in HandlerNodes, text \in GenTexts :
         \E inp \in InputsOf(node) :
            LET res == Finish(node, cl[c].artifact, inp, text)
            IN  /\ node = "generateArtifact" => CurrentContent(cl[c].artifact) = NoContent
                /\ Precheck(node, cl[c].artifact, inp) = ""
                /\ res.err = ""
                /\ res.artifact # cl[c].artifact
                /\ cl' = [cl EXCEPT ![c].pc = "edited", ![c].artifact = res.artifact,
                                    ![c].turns = @ + 1]
    /\ UNCHANGED <<rt, hd, pp, backend, artifacts, thread_artifacts, appended, fu, threads, messages, call, foreign_keys>>

\* ThreadStore.update with values.artifact: set_thread_artifact on the backend.
\* The memory and SQLite backends write in one step; DynamoDB puts one item per version.
ClientPersist(c) ==
    LET t == cl[c].tid
        a == cl[c].artifact
    IN  /\ cl[c].pc = "edited"
        /\ CASE backend = "memory" ->
                  /\ artifacts' = [artifacts EXCEPT ![t] = SetThreadArtifact(@, a)]
                  /\ cl' = [cl EXCEPT ![c].pc = "idle"]
                  /\ appended' = [appended EXCEPT ![t] = @ + 1]
                  /\ UNCHANGED thread_artifacts
             [] backend = "sqlite" ->
                  /\ thread_artifacts' = [thread_artifacts EXCEPT ![t] = a]
                  /\ cl' = [cl EXCEPT ![c].pc = "idle"]
                  /\ appended' = [appended EXCEPT ![t] = @ + 1]
                  /\ UNCHANGED artifacts
             [] OTHER ->
                  /\ artifacts' = [artifacts EXCEPT ![t] = PutVersion(@, Head(a.contents))]
                  /\ IF Len(a.contents) = 1
                     THEN /\ cl' = [cl EXCEPT ![c].pc = "idle"]
                          /\ appended' = [appended EXCEPT ![t] = @ + 1]
                     ELSE /\ cl' = [cl EXCEPT ![c].pc = "persisting",
                                              ![c].pending = Tail(a.contents)]
                          /\ UNCHANGED appended
                  /\ UNCHANGED thread_artifacts
        /\ UNCHANGED <<rt, hd, pp, backend, fu, threads, messages, call, foreign_keys>>

\* DynamoDBThreadStorage.set_thread_artifact: the next put_item of the loop
ClientPutItem(c) ==
    LET t == cl[c].tid
    IN  /\ cl[c].pc = "persisting"
        /\ artifacts' = [artifacts EXCEPT ![t] = PutVersion(@, Head(cl[c].pending))]
        /\ IF Len(cl[c].pending) = 1
           THEN /\ cl' = [cl EXCEPT ![c].pc = "idle", ![c].pending = <<>>]
                /\ appended' = [appended EXCEPT ![t] = @ + 1]
           ELSE /\ cl' = [cl EXCEPT ![c].pending = Tail(@)]
                /\ UNCHANGED appended
        /\ UNCHANGED <<rt, hd, pp, backend, thread_artifacts, fu, threads, messages, call, foreign_keys>>

StoreNext ==
    \E c \in Clients :
        \/ ClientLoad(c)
        \/ ClientEdit(c)
        \/ ClientPersist(c)
        \/ ClientPutItem(c)

\* one client alone: every turn is load, edit, persist, in sequence
SeqNext ==
    \/ ClientLoad(1)
    \/ ClientEdit(1)
    \/ ClientPersist(1)
    \/ ClientPutItem(1)

(***************************************************************************)
(* Streaming.  One client's turns on thread "t1", with the generation call *)
(* of the handler taken chunk by chunk: "async for chunk in model.astream" *)
(* accumulates the text, and the handler builds its result only after the  *)
(* stream has ended.  The route forwards the run's events and sends an     *)
(* error event when the run raises.                                        *)
(***************************************************************************)
MaxChunks == 2       \* chunks a stream delivers before it ends or aborts
MaxStreamTurns == 2  \* turns the streaming client starts

StreamNodes == {"generateArtifact", "rewriteArtifact"}

StreamError == "stream aborted"

\* an aborted stream whose handler commits what it has accumulated
StreamAbortCommit(h, c) ==
    LET res == Finish(h.node, h.artifact, h.inp, h.text)
    IN  [hd |-> [h EXCEPT !.pc = "failed", !.err = StreamError,
                          !.prev = h.artifact, !.artifact = res.artifact],
         cl |-> [c EXCEPT !.pc = "edited", !.artifact = res.artifact]]

\* model.astream raises inside the handler: the exception leaves the handler,
\* the run ends, and the route's except clause sends the error event
StreamAbort(h, c) ==
    [hd |-> [h EXCEPT !.pc = "failed", !.err = StreamError, !.prev = h.artifact],
     cl |-> [c EXCEPT !.pc = "idle"]]

StreamInit ==
    /\ hd = [HdIdle EXCEPT !.pc = "idle"]
    /\ backend \in Backends
    /\ artifacts = [t \in Threads |-> EmptyVersions]
    /\ thread_artifacts = [t \in Threads |-> NoArtifact]
    /\ cl = [c \in Clients |-> ClIdle]
    /\ appended = [t \in Threads |-> 0]

\* the request reaches the handler the router dispatches for the loaded artifact
StreamBegin ==
    /\ cl[1].pc = "loaded"
    /\ hd.turns < MaxStreamTurns
    /\ \E node \in StreamNodes :
         /\ (node = "generateArtifact") <=> (CurrentContent(cl[1].artifact) = NoContent)
         /\ Precheck(node, cl[1].artifact, NoInput) = ""
         /\ hd' = [hd EXCEPT !.pc = "generating", !.node = node,
                             !.artifact = cl[1].artifact, !.prev = cl[1].artifact,
                             !.inp = NoInput, !.text = <<>>, !.genCalls = 1,
                             !.err = "", !.turns = @ + 1]
    /\ cl' = [cl EXCEPT ![1].pc = "streaming"]
    /\ UNCHANGED <<rt, pp, backend, artifacts, thread_artifacts, appended, fu,
                   threads, messages, call, foreign_keys>>

\* one pass of the "async for" loop
StreamChunk ==
    /\ hd.pc = "generating"
    /\ cl[1].pc = "streaming"
    /\ Len(hd.text) < MaxChunks
    /\ \E ch \in Alphabet : hd' = [hd EXCEPT !.text = Append(@, ch)]
    /\ UNCHANGED <<rt, pp, backend, artifacts, thread_artifacts, cl, appended, fu,
                   threads, messages, call, foreign_keys>>

\* the stream ends and the handler returns its result
StreamEnd ==
    /\ hd.pc = "generating"
    /\ cl[1].pc = "streaming"
    /\ LET res == Finish(hd.node, hd.artifact, hd.inp, hd.text)
       IN  IF res.err = ""
           THEN /\ hd' = [hd EXCEPT !.pc = "done", !.prev = hd.artifact,
                                    !.artifact = res.artifact]
                /\ cl' = [cl EXCEPT ![1].pc = "edited", ![1].artifact = res.artifact,
                                    ![1].turns = @ + 1]
           ELSE /\ hd' = [hd EXCEPT !.pc = "failed", !.err = res.err,
                                    !.prev = hd.artifact]
                /\ cl' = [cl EXCEPT ![1].pc = "idle"]
    /\ UNCHANGED <<rt, pp, backend, artifacts, thread_artifacts, appended, fu,
                   threads, messages, call, foreign_keys>>

\* the stream raises after the chunks delivered so far
StreamAborts ==
    /\ hd.pc = "generating"
    /\ cl[1].pc = "streaming"
    /\ hd' = StreamAbort(hd, cl[1]).hd
    /\ cl' = [cl EXCEPT ![1] = StreamAbort(hd, cl[1]).cl]
    /\ UNCHANGED <<rt, pp, backend, artifacts, thread_artifacts, appended, fu,
                   threads, messages, call, foreign_keys>>

StreamNext ==
    \/ ClientLoad(1)
    \/ StreamBegin
    \/ StreamChunk
    \/ StreamEnd
    \/ StreamAborts
    \/ ClientPersist(1)
    \/ ClientPutItem(1)

(***************************************************************************)
(* Thread and message tables of the three backends.                        *)
(***************************************************************************)
MaxThreadLog == 1    \* messages a stored thread holds when a call on it starts
MaxVersions == 1     \* artifact versions a stored thread holds
MaxLimit == 1        \* largest limit passed to search_threads

ThreadIds == Threads \cup {"t3"}

\* the metadata keys requests write
MetaKeys == {"k1", "k2"}

\* metadata or {}
NoMetadata == [k \in MetaKeys |-> Absent]

\* get_thread -> None
NoThread == [present |-> FALSE, updated_at |-> 0, metadata |-> NoMetadata]

Thread(stamp) == [present |-> TRUE, updated_at |-> stamp, metadata |-> NoMetadata]

\* a stored message: the log of a thread maps message_index to it
Message(role, content) == [role |-> role, content |-> content]

\* get_thread_messages -> []
NoMessages == [i \in {} |-> Message("user", "")]

\* what the four collections hold for each thread
StoreState ==
    [threads |-> threads, messages |-> messages, artifacts |-> artifacts,
     thread_artifacts |-> thread_artifacts]

CallIdle ==
    [op |-> "none", pc |-> "idle", t |-> "t1", limit |-> 0, pending |-> {},
     input |-> <<>>, old |-> NoMessages, seen |-> <<>>,
     returned |-> "none", response |-> "none", result |-> <<>>,
     before |-> [threads |-> <<>>, messages |-> <<>>, artifacts |-> <<>>,
                 thread_artifacts |-> <<>>]]

\* a stored log of n messages
SampleLog(n) ==
    [i \in 0..(n - 1) |-> Message(IF i % 2 = 0 THEN "user" ELSE "assistant", "a")]

\* n stored versions, as the memory and DynamoDB backends keep them
SampleVersions(n) == [i \in 1..n |-> Artifact(i, <<TextContent(i, <<"a">>)>>)]

\* n stored versions, as the SQLite backend keeps them
SampleArtifact(n) ==
    IF n = 0 THEN NoArtifact
    ELSE Artifact(n, [i \in 1..n |-> TextContent(i, <<"a">>)])

\* store contents a running service can have reached: threads with distinct
\* updated_at stamps, each with a message log and artifact versions
ThreadsInit ==
    /\ backend \in Backends
    /\ foreign_keys \in (IF backend = "sqlite" THEN BOOLEAN ELSE {FALSE})
    /\ \E present \in [ThreadIds -> BOOLEAN],
          stamp \in [ThreadIds -> 1..Cardinality(ThreadIds)],
          logs \in [ThreadIds -> 0..MaxThreadLog],
          vers \in [ThreadIds -> 0..MaxVersions] :
        /\ \A t1 \in ThreadIds, t2 \in ThreadIds :
              (t1 # t2 /\ present[t1] /\ present[t2]) => stamp[t1] # stamp[t2]
        /\ \A t \in ThreadIds : ~present[t] => (logs[t] = 0 /\ vers[t] = 0 /\ stamp[t] = 1)
        /\ threads = [t \in ThreadIds |->
                        IF present[t] THEN Thread(stamp[t]) ELSE NoThread]
        /\ messages = [t \in ThreadIds |-> SampleLog(logs[t])]
        /\ artifacts = [t \in ThreadIds |->
                          IF backend = "sqlite" THEN EmptyVersions
                          ELSE SampleVersions(vers[t])]
        /\ thread_artifacts = [t \in ThreadIds |->
                                 IF backend = "sqlite" THEN SampleArtifact(vers[t])
                                 ELSE NoArtifact]
    /\ call = CallIdle
    /\ cl = Unused
    /\ appended = Unused

CallRest == <<rt, hd, pp, backend, cl, appended, fu, foreign_keys>>

\* MemoryThreadStorage.delete_thread on store contents st
MemoryDeleteThread(st, t) ==
    [threads |-> [st.threads EXCEPT ![t] = NoThread],
     messages |-> [st.messages EXCEPT ![t] = NoMessages],
     artifacts |-> [st.artifacts EXCEPT ![t] = EmptyVersions],
     thread_artifacts |-> st.thread_artifacts,
     returned |-> "True"]

\* SQLiteThreadStorage.delete_thread: the rows of the other two tables go
\* with the thread row only when the connection enforces foreign keys
SqliteDeleteThread(st, t, fk) ==
    [threads |-> [st.threads EXCEPT ![t] = NoThread],
     messages |-> IF fk THEN [st.messages EXCEPT ![t] = NoMessages]
                  ELSE st.messages,
     artifacts |-> st.artifacts,
     thread_artifacts |-> IF fk THEN [st.thread_artifacts EXCEPT ![t] = NoArtifact]
                          ELSE st.thread_artifacts,
     returned |-> IF st.threads[t].present THEN "True" ELSE "False"]

\* delete_thread_endpoint: what the caller of DELETE /threads/{id} gets
DeleteThreadEndpoint(returned) ==
    CASE returned = "True" -> "deleted"
      [] returned = "False" -> "NotFoundError"
      [] OTHER -> "Exception"

\* delete_thread on the memory and SQLite backends
DeleteThread ==
    /\ call.pc = "idle"
    /\ backend \in {"memory", "sqlite"}
    /\ \E t \in ThreadIds :
         LET r == IF backend = "memory" THEN MemoryDeleteThread(StoreState, t)
                  ELSE SqliteDeleteThread(StoreState, t, foreign_keys)
         IN  /\ threads' = r.threads
             /\ messages' = r.messages
             /\ artifacts' = r.artifacts
             /\ thread_artifacts' = r.thread_artifacts
             /\ call' = [call EXCEPT !.op = "delete_thread", !.pc = "done", !.t = t,
                                     !.before = StoreState,
                                     !.returned = r.returned,
                                     !.response = DeleteThreadEndpoint(r.returned)]
    /\ UNCHANGED CallRest

\* DynamoDBThreadStorage.delete_thread: the query for the thread's messages
DynamoDeleteBegin ==
    /\ call.pc = "idle"
    /\ backend = "dynamodb"
    /\ \E t \in ThreadIds :
         call' = [call EXCEPT !.op = "delete_thread", !.pc = "deleting", !.t = t,
                              !.before = StoreState,
                              !.pending = DOMAIN messages[t]]
    /\ UNCHANGED <<threads, messages, artifacts, thread_artifacts>>
    /\ UNCHANGED CallRest

\* a log without the item stored under message_index i
DeleteItem(log, i) == [j \in DOMAIN log \ {i} |-> log[j]]

\* the next messages_table.delete_item of the loop
DynamoDeleteMessage ==
    /\ call.op = "delete_thread"
    /\ call.pc = "deleting"
    /\ call.pending # {}
    /\ LET i == CHOOSE k \in call.pending : \A j \in call.pending : k <= j
       IN  /\ messages' = [messages EXCEPT ![call.t] = DeleteItem(@, i)]
           /\ call' = [call EXCEPT !.pending = @ \ {i}]
    /\ UNCHANGED <<threads, artifacts, thread_artifacts>>
    /\ UNCHANGED CallRest

\* artifacts_table.delete_item(Key={"thread_id": ...}): the table's key is
\* (thread_id, version_index), the request is rejected, and the ClientError
\* leaves delete_thread as an Exception before the thread item is deleted
DynamoDeleteArtifact ==
    /\ call.op = "delete_thread"
    /\ call.pc = "deleting"
    /\ call.pending = {}
    /\ call' = [call EXCEPT !.pc = "done", !.returned = "raised",
                            !.response = DeleteThreadEndpoint("raised")]
    /\ UNCHANGED <<threads, messages, artifacts, thread_artifacts>>
    /\ UNCHANGED CallRest

\* the threads the store holds
Present == {t \in ThreadIds : threads[t].present}

\* list.sort(key=updated_at, reverse=True) / ORDER BY updated_at DESC
SortDesc(S) ==
    CHOOSE seq \in [1..Cardinality(S) -> S] :
        /\ \A i \in 1..Cardinality(S), j \in 1..Cardinality(S) :
              i < j => /\ seq[i] # seq[j]
                       /\ threads[seq[i]].updated_at >= threads[seq[j]].updated_at

\* threads[:limit]
FirstN(seq, n) == SubSeq(seq, 1, Min(n, Len(seq)))

\* the items one scan(Limit=n) call can return: any n of the table's items
ScanResults(n) ==
    {S \in SUBSET Present : Cardinality(S) = Min(n, Cardinality(Present))}

\* search_threads of the configured backend: the thread ids it may return
SearchThreads(limit) ==
    IF backend = "dynamodb"
    THEN {FirstN(SortDesc(S), limit) : S \in ScanResults(limit * 2)}
    ELSE {FirstN(SortDesc(Present), limit)}

\* ThreadStore.search: each entry carries the first message of the thread
SearchEntry(t) ==
    [thread_id |-> t, updated_at |-> threads[t].updated_at,
     messages |-> IF DOMAIN messages[t] = {} THEN <<>> ELSE <<messages[t][0]>>]

Search ==
    /\ call.pc = "idle"
    /\ \E limit \in 1..MaxLimit :
       \E ids \in SearchThreads(limit) :
         call' = [call EXCEPT !.op = "search", !.pc = "done", !.limit = limit,
                              !.before = StoreState,
                              !.result = [i \in 1..Len(ids) |-> SearchEntry(ids[i])]]
    /\ UNCHANGED <<threads, messages, artifacts, thread_artifacts>>
    /\ UNCHANGED CallRest

ThreadsNext ==
    \/ DeleteThread
    \/ DynamoDeleteBegin
    \/ DynamoDeleteMessage
    \/ DynamoDeleteArtifact
    \/ Search

(***************************************************************************)
(* The message log of one thread: set_thread_messages on each backend, a   *)
(* reader that calls get_thread_messages while the write is in progress,   *)
(* and a write that raises part-way.                                       *)
(***************************************************************************)
MaxLog == 2          \* messages in a log passed to set_thread_messages
MaxOldLog == 2       \* messages the thread holds before the write

StandardRoles == {"user", "assistant", "system", "tool"}

\* a message as a caller passes it: "" stands for a key the dict lacks
InputMessage(role, type, content) == [role |-> role, type |-> type, content |-> content]

InputMessages ==
    {InputMessage(r, "", "a") : r \in {"user", "assistant", "human", "ai", "function"}}
    \cup {InputMessage("", ty, "a") : ty \in {"", "human", "ai", "system", "other"}}
    \cup {InputMessage("tool", "ai", "b")}

RECURSIVE SeqsOfLen(_, _)
SeqsOfLen(S, n) ==
    IF n = 0 THEN {<<>>}
    ELSE {Append(q, x) : q \in SeqsOfLen(S, n - 1), x \in S}

InputLogs == UNION {SeqsOfLen(InputMessages, n) : n \in 0..MaxLog}

\* the role set_thread_messages stores for a message
NormalizeRole(msg) ==
    LET type_to_role(ty) ==
            CASE ty = "human" -> "user"
              [] ty = "ai" -> "assistant"
              [] ty \in {"assistant", "system", "tool", "user"} -> ty
              [] OTHER -> "user"
        role == IF msg.role = ""
                THEN type_to_role(IF msg.type = "" THEN "user" ELSE msg.type)
                ELSE msg.role
    IN  IF role \in StandardRoles THEN role
        ELSE CASE role = "human" -> "user"
               [] role = "ai" -> "assistant"
               [] OTHER -> "user"

\* the rows written for a list of messages: enumerate(messages)
NormalizedLog(M) ==
    [i \in 0..(Len(M) - 1) |-> Message(NormalizeRole(M[i + 1]), M[i + 1].content)]

\* a write that puts the new rows over the old ones without deleting first
UpsertLog(old, M) ==
    [i \in DOMAIN old \cup DOMAIN NormalizedLog(M) |->
        IF i \in DOMAIN NormalizedLog(M) THEN NormalizedLog(M)[i] ELSE old[i]]

\* memory: self._messages[thread_id] = normalized_messages; SQLite: DELETE
\* then INSERTs, committed together
ReplaceLog(old, M) == NormalizedLog(M)

\* updated_at = now, when the thread exists
Touch(th) == IF th.present THEN [th EXCEPT !.updated_at = @ + 1] ELSE th

MessagesInit ==
    /\ backend \in Backends
    /\ foreign_keys \in (IF backend = "sqlite" THEN BOOLEAN ELSE {FALSE})
    /\ \E present \in BOOLEAN, n \in 0..MaxOldLog :
        /\ (foreign_keys /\ ~present) => n = 0
        /\ threads = [t \in ThreadIds |->
                        IF t = "t1" /\ present THEN Thread(1) ELSE NoThread]
        /\ messages = [t \in ThreadIds |->
                         IF t = "t1" THEN SampleLog(n) ELSE NoMessages]
    /\ artifacts = Unused
    /\ thread_artifacts = Unused
    /\ call = CallIdle
    /\ cl = Unused
    /\ appended = Unused

MsgRest == <<rt, hd, pp, backend, artifacts, thread_artifacts, cl, appended, fu,
             foreign_keys>>

\* whether SQLite rejects the INSERT: the thread row it refers to is missing
\* and the connection enforces foreign keys
SqliteRejects(M) ==
    backend = "sqlite" /\ foreign_keys /\ ~threads["t1"].present /\ M # <<>>

\* set_thread_messages on the memory and SQLite backends; an SQLite write that
\* raises before conn.commit() leaves the tables as they were
SetThreadMessages ==
    /\ call.pc = "idle"
    /\ backend \in {"memory", "sqlite"}
    /\ \E M \in InputLogs, outcome \in Outcomes :
         LET raises == SqliteRejects(M) \/ (backend = "sqlite" /\ outcome = "raise")
             c == [call EXCEPT !.op = "set_thread_messages", !.pc = "done",
                               !.input = M, !.old = messages["t1"],
                               !.before = StoreState]
         IN  IF raises
             THEN /\ call' = [c EXCEPT !.returned = "raised"]
                  /\ UNCHANGED <<threads, messages>>
             ELSE /\ call' = [c EXCEPT !.returned = "None"]
                  /\ messages' = [messages EXCEPT !["t1"] = ReplaceLog(@, M)]
                  /\ threads' = [threads EXCEPT !["t1"] = Touch(@)]
    /\ UNCHANGED MsgRest

\* DynamoDBThreadStorage.set_thread_messages: the query for the existing items
DynamoSetBegin ==
    /\ call.pc = "idle"
    /\ backend = "dynamodb"
    /\ \E M \in InputLogs :
         call' = [call EXCEPT !.op = "set_thread_messages", !.pc = "replacing",
                              !.input = M, !.old = messages["t1"],
                              !.before = StoreState,
                              !.pending = DOMAIN messages["t1"], !.limit = 0]
    /\ UNCHANGED <<threads, messages>>
    /\ UNCHANGED MsgRest

\* the next delete_item of "for item in existing"
DynamoSetDelete ==
    /\ call.op = "set_thread_messages"
    /\ call.pc = "replacing"
    /\ call.pending # {}
    /\ LET i == CHOOSE k \in call.pending : \A j \in call.pending : k <= j
       IN  /\ messages' = [messages EXCEPT !["t1"] = DeleteItem(@, i)]
           /\ call' = [call EXCEPT !.pending = @ \ {i}]
    /\ UNCHANGED threads
    /\ UNCHANGED MsgRest

\* the next put_item of "for index, msg in enumerate(messages)"; call.limit
\* counts the items put so far
DynamoSetPut ==
    /\ call.op = "set_thread_messages"
    /\ call.pc = "replacing"
    /\ call.pending = {}
    /\ call.limit < Len(call.input)
    /\ LET i == call.limit
           row == NormalizedLog(call.input)[i]
       IN  messages' = [messages EXCEPT !["t1"] =
                          [j \in DOMAIN @ \cup {i} |-> IF j = i THEN row ELSE @[j]]]
    /\ call' = [call EXCEPT !.limit = @ + 1]
    /\ UNCHANGED threads
    /\ UNCHANGED MsgRest

\* update_thread_metadata(thread_id, {}) and return
DynamoSetFinish ==
    /\ call.op = "set_thread_messages"
    /\ call.pc = "replacing"
    /\ call.pending = {}
    /\ call.limit = Len(call.input)
    /\ threads' = [threads EXCEPT !["t1"] = Touch(@)]
    /\ call' = [call EXCEPT !.pc = "done", !.returned = "None"]
    /\ UNCHANGED messages
    /\ UNCHANGED MsgRest

\* a request of the loops is refused (ClientError): the call raises and the
\* items deleted and put so far stay as they are
DynamoSetFails ==
    /\ call.op = "set_thread_messages"
    /\ call.pc = "replacing"
    /\ call' = [call EXCEPT !.pc = "done", !.returned = "raised"]
    /\ UNCHANGED <<threads, messages>>
    /\ UNCHANGED MsgRest

\* another request calls get_thread_messages while the write is in progress
ReadMessages ==
    /\ call.op = "set_thread_messages"
    /\ call.pc = "replacing"
    /\ call.seen = <<>>
    /\ call' = [call EXCEPT !.seen = <<messages["t1"]>>]
    /\ UNCHANGED <<threads, messages>>
    /\ UNCHANGED MsgRest

MessagesNext ==
    \/ SetThreadMessages
    \/ DynamoSetBegin
    \/ DynamoSetDelete
    \/ DynamoSetPut
    \/ DynamoSetFinish
    \/ DynamoSetFails
    \/ ReadMessages

(***************************************************************************)
(* Thread state updates.  Workers serve create, delete and update-state    *)
(* requests against one store.  update_thread_state reads the thread and   *)
(* then writes through ThreadStore.update.  The memory store lives in one  *)
(* process whose handlers run from the read to the write without yielding; *)
(* the SQLite file and the DynamoDB tables are shared by worker processes, *)
(* whose reads and writes interleave.                                      *)
(***************************************************************************)
MaxRequests == 2     \* requests served in one behaviour

Workers == {"w1", "w2"}
Trees == {"backend", "agents"}

\* {**existing, **metadata}
MergeMetadata(existing, metadata) ==
    [k \in MetaKeys |-> IF metadata[k] # Absent THEN metadata[k] ELSE existing[k]]

\* an update that writes the merged metadata and the stamp on every thread
UpdateEveryThreadMetadata(st, t, metadata) ==
    [st EXCEPT !.threads =
        [u \in DOMAIN st.threads |->
            IF st.threads[u].present
            THEN [st.threads[u] EXCEPT !.metadata = MergeMetadata(@, metadata),
                                       !.updated_at = @ + 1]
            ELSE st.threads[u]]]

\* update_thread_metadata of the three backends
UpdateThreadMetadata(st, t, metadata) ==
    IF ~st.threads[t].present THEN st
    ELSE [st EXCEPT !.threads[t] =
            [@ EXCEPT !.metadata = MergeMetadata(@, metadata), !.updated_at = @ + 1]]

\* create_thread: the thread record and, on the memory backend, an empty log
CreateThread(st, t, metadata) ==
    [st EXCEPT !.threads[t] = [Thread(1) EXCEPT !.metadata = metadata],
               !.messages[t] = NoMessages]

\* set_thread_messages raises: the INSERT refers to a thread row that is
\* missing and the connection enforces foreign keys
SetMessagesRaises(b, fk, st, t, M) ==
    b = "sqlite" /\ fk /\ ~st.threads[t].present /\ M # <<>>

\* set_thread_messages as one step: the log is replaced, the thread touched
SetThreadMessagesOn(st, t, M) ==
    [st EXCEPT !.messages[t] = ReplaceLog(@, M), !.threads[t] = Touch(@)]

\* set_thread_artifact raises: artifact.get on None (memory, DynamoDB), or
\* the row refers to a missing thread and foreign keys are enforced (SQLite)
SetArtifactRaises(b, fk, st, t, artifact) ==
    IF b = "sqlite" THEN fk /\ ~st.threads[t].present
    ELSE ~artifact.present

\* set_thread_artifact: one row holding the artifact as given (SQLite; None is
\* stored as "null"), one single-version item per content (memory, DynamoDB)
SetThreadArtifactOn(b, st, t, artifact) ==
    IF b = "sqlite"
    THEN [st EXCEPT !.thread_artifacts[t] = artifact, !.threads[t] = Touch(@)]
    ELSE [st EXCEPT !.artifacts[t] = SetThreadArtifact(@, artifact),
                    !.threads[t] = Touch(@)]

\* DynamoDBThreadStorage.delete_thread from start to end: the messages are
\* deleted, artifacts_table.delete_item is rejected, the thread item stays
DynamoDeleteThread(st, t) ==
    [threads |-> st.threads,
     messages |-> [st.messages EXCEPT ![t] = NoMessages],
     artifacts |-> st.artifacts,
     thread_artifacts |-> st.thread_artifacts,
     returned |-> "raised"]

\* get_thread_messages: the stored log as a list of dicts
AsList(log) ==
    [i \in 1..Cardinality(DOMAIN log) |->
        InputMessage(log[i - 1].role, "", log[i - 1].content)]

\* ThreadStore.get -> None
NoView ==
    [present |-> FALSE, metadata |-> NoMetadata, messages |-> <<>>,
     artifact |-> NoArtifact]

\* ThreadStore.get: metadata, values.messages and, when the backend returns
\* one, values.artifact
ThreadStoreGet(b, st, t) ==
    IF ~st.threads[t].present THEN NoView
    ELSE [present |-> TRUE,
          metadata |-> st.threads[t].metadata,
          messages |-> AsList(st.messages[t]),
          artifact |-> IF b = "sqlite" THEN st.thread_artifacts[t]
                       ELSE GetThreadArtifactLatest(st.artifacts[t])]

\* ThreadStore.update: the storage calls in order, an exception leaving the
\* earlier writes in place; "artifact" in values is tested before the None case
ThreadStoreUpdate(b, fk, st, t, updates) ==
    LET s1 == IF updates.has_metadata
              THEN UpdateThreadMetadata(st, t, updates.metadata) ELSE st
        m == updates.has_values /\ updates.has_messages
        r2 == m /\ SetMessagesRaises(b, fk, s1, t, updates.messages)
        s2 == IF m /\ ~r2 THEN SetThreadMessagesOn(s1, t, updates.messages) ELSE s1
        a == updates.has_values /\ updates.has_artifact /\ ~r2
        r3 == a /\ SetArtifactRaises(b, fk, s2, t, updates.artifact)
        s3 == IF a /\ ~r3 THEN SetThreadArtifactOn(b, s2, t, updates.artifact) ELSE s2
    IN  [store |-> s3, raised |-> r2 \/ r3,
         thread |-> IF r2 \/ r3 THEN NoView ELSE ThreadStoreGet(b, s3, t)]

\* the body of a POST /threads/{id}/state request: has_x is "x was sent"
NoRequest ==
    [has_values |-> FALSE, has_messages |-> FALSE, messages |-> <<>>,
     has_artifact |-> FALSE, artifact |-> NoArtifact,
     has_metadata |-> FALSE, metadata |-> NoMetadata]

\* artifacts a request sends: None, and two versions of which the first is
\* the current one
RequestArtifacts ==
    {NoArtifact, Artifact(1, <<TextContent(1, <<"b">>), TextContent(2, <<"b">>)>>)}

UpdateRequests ==
    {[NoRequest EXCEPT !.has_metadata = TRUE,
                       !.metadata = [NoMetadata EXCEPT ![k] = <<"b">>]] : k \in MetaKeys}
    \cup {[NoRequest EXCEPT !.has_values = TRUE, !.has_messages = TRUE,
                            !.messages = <<InputMessage("human", "", "b")>>]}
    \cup {[NoRequest EXCEPT !.has_values = TRUE, !.has_artifact = TRUE,
                            !.artifact = a] : a \in RequestArtifacts}

\* api/threads/service.py update_thread_state: the updates dict, built from
\* the thread as read and the request
ServiceUpdates(thread, req) ==
    [has_values |-> req.has_values,
     has_messages |-> TRUE,
     messages |-> IF req.has_messages THEN req.messages ELSE thread.messages,
     has_artifact |-> req.has_artifact \/ thread.artifact.present,
     artifact |-> IF req.has_artifact THEN req.artifact ELSE thread.artifact,
     has_metadata |-> req.has_metadata,
     metadata |-> MergeMetadata(thread.metadata, req.metadata)]

\* threads/routes.py update_thread_state: values and metadata of the thread
\* as read, updated in place, are both passed on
RoutesUpdates(thread, req) ==
    [ServiceUpdates(thread, req) EXCEPT !.has_values = TRUE, !.has_metadata = TRUE]

RqIdle ==
    [pc |-> "idle", op |-> "none", tree |-> "backend", t |-> "t1", req |-> NoRequest,
     thread |-> NoView, raised |-> FALSE, returned |-> NoView, served |-> 0]

Served == cl["w1"].served + cl["w2"].served

\* handlers of the memory-backed process run one at a time
Exclusive(w) == backend = "memory" => \A v \in Workers \ {w} : cl[v].pc # "read"

\* a store a running service can have reached: t1 with metadata, a message
\* and possibly an artifact version; t2 created or not.  The workers of a
\* deployment run the same code tree.
UpdateInit ==
    /\ backend \in Backends
    /\ foreign_keys \in (IF backend = "sqlite" THEN BOOLEAN ELSE {FALSE})
    /\ \E vers \in 0..MaxVersions, second \in BOOLEAN :
        /\ threads = [t \in Threads |->
                        IF t = "t1"
                        THEN [Thread(1) EXCEPT !.metadata = [k \in MetaKeys |-> <<"a">>]]
                        ELSE IF second THEN Thread(1) ELSE NoThread]
        /\ messages = [t \in Threads |->
                         IF t = "t1" THEN SampleLog(1) ELSE NoMessages]
        /\ artifacts = [t \in Threads |->
                          IF t = "t1" /\ backend # "sqlite" THEN SampleVersions(vers)
                          ELSE EmptyVersions]
        /\ thread_artifacts = [t \in Threads |->
                                 IF t = "t1" /\ backend = "sqlite"
                                 THEN SampleArtifact(vers) ELSE NoArtifact]
    /\ \E tree \in Trees : cl = [w \in Workers |-> [RqIdle EXCEPT !.tree = tree]]
    /\ call = Unused
    /\ appended = Unused

UpdRest == <<rt, hd, pp, backend, appended, fu, call, foreign_keys>>

\* update_thread_state up to thread_store.get: an unknown thread is answered
\* without a write
UpdateRead(w) ==
    /\ cl[w].pc # "read"
    /\ Served < MaxRequests
    /\ Exclusive(w)
    /\ \E t \in Threads, req \in UpdateRequests :
         LET thread == ThreadStoreGet(backend, StoreState, t)
         IN  cl' = [cl EXCEPT ![w] =
                      [RqIdle EXCEPT !.pc = IF thread.present THEN "read" ELSE "done",
                                     !.op = "update", !.tree = cl[w].tree, !.t = t,
                                     !.req = req, !.thread = thread,
                                     !.served = cl[w].served + 1]]
    /\ UNCHANGED <<threads, messages, artifacts, thread_artifacts>>
    /\ UNCHANGED UpdRest

\* the rest of update_thread_state: thread_store.update with the merged dicts
UpdateWrite(w) ==
    /\ cl[w].pc = "read"
    /\ LET c == cl[w]
           u == IF c.tree = "backend" THEN ServiceUpdates(c.thread, c.req)
                ELSE RoutesUpdates(c.thread, c.req)
           r == ThreadStoreUpdate(backend, foreign_keys, StoreState, c.t, u)
       IN  /\ threads' = r.store.threads
           /\ messages' = r.store.messages
           /\ artifacts' = r.store.artifacts
           /\ thread_artifacts' = r.store.thread_artifacts
           /\ cl' = [cl EXCEPT ![w] = [c EXCEPT !.pc = "done", !.thread = NoView,
                                                !.raised = r.raised,
                                                !.returned = r.thread]]
    /\ UNCHANGED UpdRest

\* POST /threads: ThreadStore.create under a fresh uuid4
CreateRequest(w) ==
    /\ cl[w].pc # "read"
    /\ Served < MaxRequests
    /\ Exclusive(w)
    /\ \E t \in Threads :
         /\ threads[t] = NoThread
         /\ messages[t] = NoMessages
         /\ artifacts[t] = EmptyVersions
         /\ thread_artifacts[t] = NoArtifact
         /\ LET st == CreateThread(StoreState, t, NoMetadata)
            IN  /\ threads' = st.threads
                /\ messages' = st.messages
         /\ cl' = [cl EXCEPT ![w] = [RqIdle EXCEPT !.pc = "done", !.op = "create",
                                                   !.tree = cl[w].tree, !.t = t,
                                                   !.served = cl[w].served + 1]]
    /\ UNCHANGED <<artifacts, thread_artifacts>>
    /\ UNCHANGED UpdRest

\* DELETE /threads/{id}: ThreadStore.delete
DeleteRequest(w) ==
    /\ cl[w].pc # "read"
    /\ Served < MaxRequests
    /\ Exclusive(w)
    /\ \E t \in Threads :
         LET r == CASE backend = "memory" -> MemoryDeleteThread(StoreState, t)
                    [] backend = "sqlite" ->
                          SqliteDeleteThread(StoreState, t, foreign_keys)
                    [] OTHER -> DynamoDeleteThread(StoreState, t)
         IN  /\ threads' = r.threads
             /\ messages' = r.messages
             /\ artifacts' = r.artifacts
             /\ thread_artifacts' = r.thread_artifacts
             /\ cl' = [cl EXCEPT ![w] = [RqIdle EXCEPT !.pc = "done", !.op = "delete",
                                                       !.tree = cl[w].tree, !.t = t,
                                                       !.raised = r.returned = "raised",
                                                       !.served = cl[w].served + 1]]
    /\ UNCHANGED UpdRest

UpdateNext ==
    \E w \in Workers :
        \/ UpdateRead(w)
        \/ UpdateWrite(w)
        \/ CreateRequest(w)
        \/ DeleteRequest(w)

(***************************************************************************)
(* Sharing a run.  share_run_with_retry calls the tracing client's         *)
(* share_run, which returns a URL or raises; `call` holds the loop's       *)
(* position, the outcomes of the attempts so far and the time slept.       *)
(***************************************************************************)
MAX_RETRIES == 5
RETRY_DELAY == 5

\* what one ls_client.share_run(run_id) can do
ShareFailures == {"ConnectionError", "LangSmithError"}
ShareOutcomes == {"url"} \cup ShareFailures

\* a loop that never takes the last-attempt branch
NeverLastAttempt(attempt) == FALSE

\* if attempt == MAX_RETRIES
LastAttempt(attempt) == attempt = MAX_RETRIES

ShareIdle ==
    [pc |-> "try", attempt |-> 1, outcomes |-> <<>>, slept |-> 0,
     returned |-> "none", raised |-> "none"]

ShareInit == call = ShareIdle

ShareRest ==
    <<rt, hd, pp, backend, artifacts, thread_artifacts, cl, appended, fu, threads,
      messages, foreign_keys>>

\* the try block of one pass: the call, and the return when it succeeds
ShareTry ==
    /\ call.pc = "try"
    /\ \E outcome \in ShareOutcomes :
         call' = [call EXCEPT !.outcomes = Append(@, outcome),
                              !.pc = IF outcome = "url" THEN "returned" ELSE "except",
                              !.returned = IF outcome = "url" THEN outcome ELSE @]
    /\ UNCHANGED ShareRest

\* the except block: re-raise on the last attempt, else sleep and go on to
\* the next value of range(1, MAX_RETRIES + 1); the statement after the loop
\* raises "Max retries reached"
ShareExcept ==
    /\ call.pc = "except"
    /\ LET e == call.outcomes[Len(call.outcomes)]
       IN  IF LastAttempt(call.attempt)
           THEN call' = [call EXCEPT !.pc = "raised", !.raised = e]
           ELSE IF call.attempt + 1 <= MAX_RETRIES
                THEN call' = [call EXCEPT !.pc = "try", !.attempt = @ + 1,
                                          !.slept = @ + RETRY_DELAY]
                ELSE call' = [call EXCEPT !.pc = "raised",
                                          !.slept = @ + RETRY_DELAY,
                                          !.raised = "Max retries reached"]
    /\ UNCHANGED ShareRest

ShareNext ==
    \/ ShareTry
    \/ ShareExcept

(***************************************************************************)
(* Specifications                                                          *)
(***************************************************************************)
TablesOff ==
    /\ threads = Unused
    /\ messages = Unused
    /\ call = Unused
    /\ foreign_keys = Unused

StoreOff ==
    /\ backend = Unused
    /\ artifacts = Unused
    /\ thread_artifacts = Unused
    /\ cl = Unused
    /\ appended = Unused
    /\ TablesOff

RunsOff == rt = Unused /\ hd = Unused /\ pp = Unused /\ fu = Unused

Init == RunsOff /\ StoreInit /\ TablesOff
Next == StoreNext
Spec == Init /\ [][Next]_vars

SpecSeq == Init /\ [][SeqNext]_vars

InitRoute == RouteInit /\ hd = Unused /\ pp = Unused /\ fu = Unused /\ StoreOff
SpecRoute == InitRoute /\ [][RouteNext]_vars

InitHandler == rt = Unused /\ HandlerInit /\ pp = Unused /\ fu = Unused /\ StoreOff
SpecHandler == InitHandler /\ [][HandlerNext]_vars

InitPipe == rt = Unused /\ hd = Unused /\ PipeInit /\ fu = Unused /\ StoreOff
SpecPipe == InitPipe /\ [][PipeNext]_vars

InitStream == rt = Unused /\ StreamInit /\ pp = Unused /\ fu = Unused /\ TablesOff
SpecStream == InitStream /\ [][StreamNext]_vars

InitThreads == RunsOff /\ ThreadsInit
SpecThreads == InitThreads /\ [][ThreadsNext]_vars

InitMessages == RunsOff /\ MessagesInit
SpecMessages == InitMessages /\ [][MessagesNext]_vars

InitUpdate == RunsOff /\ UpdateInit
SpecUpdate == InitUpdate /\ [][UpdateNext]_vars

InitShare ==
    /\ RunsOff
    /\ backend = Unused /\ artifacts = Unused /\ thread_artifacts = Unused
    /\ cl = Unused /\ appended = Unused
    /\ threads = Unused /\ messages = Unused /\ foreign_keys = Unused
    /\ ShareInit
\* share_run_with_retry runs in an executor thread: each call to the client
\* returns or raises, and the loop goes on
SpecShare == InitShare /\ [][ShareNext]_vars /\ WF_vars(ShareNext)

MaxLiveFlags == 1    \* command flags set in a turn whose termination is checked

\* one turn through the backend graph; the graph runner executes the node the
\* edge leads to, and a node's model or search call returns or raises
InitPipeLive ==
    /\ InitPipe
    /\ pp.app = "backend"
    /\ Cardinality({f \in FlagNames : pp.flags[f]}) <= MaxLiveFlags
SpecPipeLive == InitPipeLive /\ [][PipeNext]_vars /\ WF_vars(PipeNext)

InitAssemble == rt = Unused /\ hd = Unused /\ pp = Unused /\ AssembleInit /\ StoreOff
SpecAssemble == InitAssemble /\ [][AssembleNext]_vars

(***************************************************************************)
(* Routing properties (SpecRoute)                                          *)
(***************************************************************************)
ExplicitFlag(fl) ==
    \/ fl["highlightedCode"] \/ fl["highlightedText"] \/ ThemeFlag(fl) \/ CodeThemeFlag(fl)
    \/ fl["customQuickActionId"] \/ fl["webSearchEnabled"]

\* the seven-row priority table as the specification states it
SevenRowTable(st) ==
    IF st.flags["highlightedCode"] THEN "updateArtifact"
    ELSE IF st.flags["highlightedText"] THEN "updateHighlightedText"
    ELSE IF ThemeFlag(st.flags) THEN "rewriteArtifactTheme"
    ELSE IF st.flags["customQuickActionId"] THEN "customAction"
    ELSE IF st.flags["webSearchEnabled"] THEN "webSearch"
    ELSE IF st.artifact.present THEN "rewriteArtifact"
    ELSE "generateArtifact"

\* the rows that do not depend on the artifact, with the code-theme row in its place
FlagRows(fl) ==
    IF fl["highlightedCode"] THEN "updateArtifact"
    ELSE IF fl["highlightedText"] THEN "updateHighlightedText"
    ELSE IF ThemeFlag(fl) THEN "rewriteArtifactTheme"
    ELSE IF CodeThemeFlag(fl) THEN "rewriteCodeArtifactTheme"
    ELSE IF fl["customQuickActionId"] THEN "customAction"
    ELSE "webSearch"

\* C6 (as stated): for every combination of flags and artifact presence the tag the
\* router returns equals the one the seven-row priority table gives.
C6_SevenRowTable == rt.pc = "routed" => rt.next = SevenRowTable(rt.st)

\* C6 (amended): the router returns the first match of the table with one more row,
\* any of addComments/addLogs/portLanguage/fixBugs -> code theme transform, between
\* the theme and the custom action rows.  With no flag set the static router returns
\* full-rewrite when the state has an artifact and generate otherwise; the dynamic
\* router returns reply-to-general-input, or full-rewrite when the artifact has a
\* current version, or generate when it has none.
C6_PriorityTable ==
    rt.pc = "routed" =>
        IF ExplicitFlag(rt.st.flags) THEN rt.next = FlagRows(rt.st.flags)
        ELSE IF rt.app = "agents"
        THEN rt.next = (IF rt.st.artifact.present THEN "rewriteArtifact" ELSE "generateArtifact")
        ELSE rt.next \in {"replyToGeneralInput",
                          IF CurrentContent(rt.st.artifact) # NoContent
                          THEN "rewriteArtifact" ELSE "generateArtifact"}

\* a code-theme flag together with a custom action id routes to the code theme transform
C6_Witness ==
    /\ rt.pc = "routed"
    /\ rt.st.flags["fixBugs"] /\ rt.st.flags["customQuickActionId"]
    /\ rt.st.flags["webSearchEnabled"] /\ rt.st.artifact.present
    /\ rt.next = "rewriteCodeArtifactTheme"

C8_EveryTagDispatched ==
    /\ rt.pc = "routed" => rt.next # "" /\ rt.next \in RouteTable(rt.app)
    /\ rt.pc # "error"

(***************************************************************************)
(* Handler properties (SpecHandler)                                        *)
(***************************************************************************)
MaxOf(S) == CHOOSE i \in S : \A j \in S : j <= i

EditNodes == {"rewriteArtifact", "updateArtifact", "updateHighlightedText",
              "rewriteArtifactTheme", "customAction"}

\* an edit handler has returned an artifact with a new version
ProducedVersion == hd.pc = "done" /\ hd.node \in EditNodes /\ hd.artifact # hd.prev

\* C5: every edit handler that produces a version appends exactly one version whose
\* index is max(existing indices) + 1, sets currentIndex to it, and leaves every
\* earlier entry of the version list unchanged.
C5_AppendsMaxPlusOne ==
    ProducedVersion =>
        LET old == hd.prev.contents
            new == hd.artifact.contents
        IN  /\ Len(new) = Len(old) + 1
            /\ SubSeq(new, 1, Len(old)) = old
            /\ new[Len(new)].index = MaxOf(Indices(hd.prev)) + 1
            /\ hd.artifact.currentIndex = new[Len(new)].index

RangeNodes == {"updateArtifact", "updateHighlightedText"}

C10_SpliceExact ==
    LET C == GetText(CurrentContent(hd.prev).code)
        N == GetText(hd.artifact.contents[Len(hd.artifact.contents)].code)
        G == hd.text
        start == hd.inp.highlightedCode.startCharIndex
        end == hd.inp.highlightedCode.endCharIndex
    IN  (hd.pc = "done" /\ hd.node = "updateArtifact" /\ start <= end /\ end <= Len(C)) =>
            /\ Len(N) = start + Len(G) + (Len(C) - end)
            /\ \A k \in 1..start : N[k] = C[k]
            /\ \A k \in 1..Len(G) : N[start + k] = G[k]
            /\ \A k \in (end + 1)..Len(C) : N[start + Len(G) + (k - end)] = C[k]

\* a highlight that starts further in than the margin and ends before the end of the code
C10_Witness ==
    /\ hd.pc = "done" /\ hd.node = "updateArtifact"
    /\ hd.inp.highlightedCode.startCharIndex > MARGIN
    /\ hd.inp.highlightedCode.endCharIndex > hd.inp.highlightedCode.startCharIndex
    /\ Len(GetText(CurrentContent(hd.prev).code)) > hd.inp.highlightedCode.endCharIndex
    /\ hd.text # <<>>

\* the version a handler has just appended
NewContent == hd.artifact.contents[Len(hd.artifact.contents)]

\* C11: a markdown range-rewrite replaces exactly one matched occurrence of the
\* containing block with the generated text, leaves all other text (other occurrences
\* of the block included) unchanged, and applies the replacement to the artifact's
\* current version.
C11_ReplacesMatchedOccurrence ==
    (hd.pc = "done" /\ hd.node = "updateHighlightedText") =>
        LET doc == GetText(CurrentContent(hd.prev).fullMarkdown)
            block == hd.inp.highlightedText.markdownBlock
        IN  \E p \in 1..(Len(doc) + 1) :
                /\ OccursAt(doc, block, p)
                /\ GetText(NewContent.fullMarkdown)
                      = SubSeq(doc, 1, p - 1) \o hd.text
                            \o SubSeq(doc, p + Len(block), Len(doc))

\* C12: every handler makes all its checks before its first call to the generation
\* service: a handler that fails has not called the generation service.
C12_ChecksBeforeGeneration == hd.pc = "failed" => hd.genCalls = 0

\* the theme flags in the order the specification gives them
ThemeOrder == <<"language", "readingLevel", "artifactLength", "regenerateWithEmojis">>

PromptOf(flag) ==
    CASE flag = "language" -> "CHANGE_ARTIFACT_LANGUAGE_PROMPT"
      [] flag = "readingLevel" -> "CHANGE_ARTIFACT_READING_LEVEL_PROMPT"
      [] flag = "artifactLength" -> "CHANGE_ARTIFACT_LENGTH_PROMPT"
      [] OTHER -> "ADD_EMOJIS_TO_ARTIFACT_PROMPT"

\* C13: the theme transform fails when no artifact exists, when the current version
\* is not markdown or when no theme flag is set, without calling the generation
\* service; otherwise it uses the one prompt of the first theme flag present in the
\* order language, reading level, length, emoji, and appends one version.
C13_ThemeTransform ==
    (hd.node = "rewriteArtifactTheme" /\ hd.pc # "idle") =>
        LET current == CurrentContent(hd.prev)
            usable == current # NoContent /\ IsArtifactMarkdownContent(current)
        IN  /\ ~usable => hd.pc = "failed"
            /\ hd.pc = "failed" =>
                  /\ hd.genCalls = 0 /\ hd.artifact = hd.prev
                  /\ hd.err = IF current = NoContent THEN "No artifact found"
                              ELSE IF ~IsArtifactMarkdownContent(current)
                              THEN "Current artifact content is not markdown"
                              ELSE "No theme selected"
            /\ hd.pc \in {"generating", "done"} =>
                  /\ hd.inp.theme # {}
                  /\ \E k \in 1..Len(ThemeOrder) :
                        /\ ThemeOrder[k] \in hd.inp.theme
                        /\ \A j \in 1..(k - 1) : ThemeOrder[j] \notin hd.inp.theme
                        /\ hd.prompt = PromptOf(ThemeOrder[k])
            /\ hd.pc = "done" =>
                  /\ Len(hd.artifact.contents) = Len(hd.prev.contents) + 1
                  /\ SubSeq(hd.artifact.contents, 1, Len(hd.prev.contents)) = hd.prev.contents
                  /\ NewContent.fullMarkdown = hd.text

\* reading level and length both set: the reading-level prompt was used
C13_Witness ==
    /\ hd.pc = "done" /\ hd.node = "rewriteArtifactTheme"
    /\ hd.inp.theme = {"readingLevel", "artifactLength", "regenerateWithEmojis"}
    /\ hd.prompt = "CHANGE_ARTIFACT_READING_LEVEL_PROMPT"

LastStage == IF pp.trace = <<>> THEN "" ELSE pp.trace[Len(pp.trace)]

TimesRun(node) == Cardinality({i \in 1..Len(pp.trace) : pp.trace[i] = node})

IsPrefix(s, t) == Len(s) <= Len(t) /\ \A i \in 1..Len(s) : s[i] = t[i]

\* C15: after the search stage the search flag is cleared and the next operation is
\* full rewrite when the artifact has versions and generate otherwise; a synthesized
\* message has been appended exactly when the search returned results; the search
\* stage runs at most once in a turn.
C15_PostWebSearch ==
    /\ TimesRun("webSearch") <= 1
    /\ TimesRun("routePostWebSearch") <= 1
    /\ TimesRun("routePostWebSearch") = 1 => ~pp.flags["webSearchEnabled"]
    /\ LastStage = "routePostWebSearch" =>
          /\ pp.pc = IF IncludesArtifacts(pp.artifact) THEN "rewriteArtifact"
                     ELSE "generateArtifact"
          /\ pp.synth <=> pp.results
          /\ pp.added = IF pp.results THEN 1 ELSE 0

C15_Witness ==
    /\ LastStage = "routePostWebSearch"
    /\ pp.artifact.present /\ pp.artifact.contents = <<>>
    /\ pp.results /\ pp.synth /\ pp.added = 1
    /\ pp.pc = "generateArtifact"

PostStages == {"generateFollowup", "reflect", "cleanState", "generateTitle", "summarizer"}

PostTrace == SelectSeq(pp.trace, LAMBDA n : n \in PostStages)

\* follow-up, reflection when an assistant id is configured, cleanup
PostOrder ==
    <<"generateFollowup">> \o (IF pp.assistantId THEN <<"reflect">> ELSE <<>>)
        \o <<"cleanState">>

\* C16: post-processing runs follow-up, reflection, cleanup and one fork stage in that
\* order, no stage twice; reflection runs exactly when an assistant id is configured;
\* a turn that ends successfully has run them all.
C16_FixedOrder ==
    /\ \E tail \in {<<>>, <<"generateTitle">>, <<"summarizer">>} :
          IsPrefix(PostTrace, PostOrder \o tail)
    /\ pp.pc = "reflect" => pp.assistantId
    /\ (pp.pc = "END" /\ pp.status = "success") =>
          PostTrace = PostOrder \o (IF pp.fork = "END" THEN <<>> ELSE <<pp.fork>>)

\* C17: when reflection raises, the turn has not failed, the pipeline stands at the
\* cleanup stage, and the conversation state is what it was before reflection.
C17_ReflectionSwallowed ==
    (pp.reflectRaised /\ LastStage = "reflect") =>
        /\ pp.status = "running"
        /\ pp.pc = "cleanState"
        /\ PpSnapshot(pp) = pp.snap

\* C18: once cleanup has run, every command flag and the next-operation tag are empty,
\* so the static priority order finds no flag and yields full rewrite or generate.
C18_FlagsCleared ==
    TimesRun("cleanState") = 1 =>
        /\ pp.flags = NoFlags
        /\ pp.next = ""
        /\ GeneratePathNode([flags |-> pp.flags, artifact |-> pp.artifact,
                             docMessage |-> FALSE, urlContents |-> FALSE])
              \in {"rewriteArtifact", "generateArtifact"}

ClaimedFork ==
    IF pp.users = 1 \/ pp.msgs <= 4 THEN "generateTitle"
    ELSE IF pp.chars > CHARACTER_MAX THEN "summarizer"
    ELSE "END"

\* C19: the fork chooses the title stage when there is exactly one user message or at
\* most four messages, else summarization when the transcript exceeds CHARACTER_MAX,
\* else the end.
C19_ForkRule == pp.fork # "" => pp.fork = ClaimedFork

\* C20: when the title stage raises, or no thread id is configured, the turn ends
\* successfully and the title stage leaves messages, artifact and flags as they were.
C20_TitleSwallowed ==
    (LastStage = "generateTitle" /\ (pp.titleRaised \/ ~pp.threadId)) =>
        /\ pp.pc = "END"
        /\ pp.status = "success"
        /\ PpSnapshot(pp) = pp.snap
        /\ ~pp.title

C20_Witness ==
    /\ pp.app = "backend"
    /\ LastStage = "generateTitle"
    /\ pp.threadId /\ pp.titleRaised
    /\ pp.pc = "END" /\ pp.status = "success"

\* C22: in the backend graph's follow-up stage an oversize failure of the
\* generation call does not fail the turn: the apology is appended as the
\* follow-up message, the pipeline moves on towards cleanup, and a turn that
\* has ended ran the cleanup stage; any other failure of the call is raised
\* and ends the turn as failed.
C22_OversizeApology ==
    pp.app = "backend" =>
        /\ (pp.followupOutcome = "too long" /\ LastStage = "generateFollowup") =>
              /\ pp.status = "running"
              /\ pp.pc \in {"reflect", "cleanState"}
              /\ pp.followup = "apology"
              /\ pp.added >= 1
        /\ (pp.followupOutcome = "too long" /\ pp.pc = "END") =>
              TimesRun("cleanState") = 1
        /\ pp.followupOutcome = "error" =>
              /\ pp.status = "failed"
              /\ pp.pc = "END"
              /\ LastStage = "generateFollowup"
              /\ pp.followup = "none"

C22_Witness ==
    /\ pp.app = "backend"
    /\ pp.followupOutcome = "too long"
    /\ pp.followup = "apology"
    /\ pp.pc = "END" /\ pp.status = "success"
    /\ TimesRun("cleanState") = 1

\* the stages whose failure has to end the turn
AbortingStages ==
    OperationNodes \cup {"generatePath", "webSearch", "generateFollowup", "summarizer"}

\* C29: a failure in routing, the operation handler, search, follow-up (other
\* than oversize) or summarization ends the turn as failed at that stage: no
\* later stage runs and no default result takes the failure's place.
C29_FailureAborts ==
    \A stage \in pp.faults \cap AbortingStages :
        (stage = "generateFollowup" => pp.followupOutcome # "too long")
            => /\ pp.status = "failed"
               /\ pp.pc = "END"
               /\ LastStage = stage

\* C35: every turn terminates: assuming each external call eventually
\* completes or fails, every execution from the start node reaches the end
\* node or an error, visiting each stage at most once (so in a bounded number
\* of stages), one stage at a time, each after the previous one has completed.
C35_TurnTerminates ==
    /\ [](\A i \in 1..Len(pp.trace), j \in 1..Len(pp.trace) :
              i # j => pp.trace[i] # pp.trace[j])
    /\ [][/\ IsPrefix(pp.trace, pp'.trace)
          /\ Len(pp'.trace) <= Len(pp.trace) + 1
          /\ pp.pc = "END" => pp' = pp]_vars
    /\ <>(pp.pc = "END" /\ pp.status \in {"success", "failed"})

C35_Witness ==
    /\ pp.app = "backend"
    /\ pp.pc = "END"
    /\ pp.status = "success"
    /\ pp.trace = <<"generatePath", "webSearch", "routePostWebSearch", "rewriteArtifact",
                    "generateFollowup", "reflect", "cleanState", "generateTitle">>

C24_AbortPersistsNothing ==
    /\ (hd.pc = "failed" /\ hd.err = StreamError) =>
          /\ hd.artifact = hd.prev
          /\ cl[1].pc \in {"idle", "loaded"}
          /\ GetArtifact("t1") = hd.prev
    /\ Cardinality(StoredIndices("t1")) <= cl[1].turns

C24_Witness ==
    /\ hd.pc = "failed" /\ hd.err = StreamError
    /\ hd.node = "rewriteArtifact"
    /\ Len(hd.text) >= 1
    /\ cl[1].turns = 1
    /\ Cardinality(StoredIndices("t1")) = 1

(***************************************************************************)
(* Context assembly properties (SpecAssemble)                              *)
(***************************************************************************)

\* C21: when the assembled follow-up prompt exceeds the budget by more than
\* the 20% margin, the generation service is never invoked and the fixed
\* "input too large" reply is what the handler returns.
C21_OversizeNeverInvokes ==
    (fu.node = "generateFollowup" /\ fu.pc # "idle" /\ fu.asm.warned)
        => /\ fu.calls = 0
           /\ fu.pc = "done" => fu.reply = "apology"

\* the smallest conversation the degraded path leaves
DegradeFloor(node) ==
    IF node = "generateFollowup" THEN TRUNCATED_NOTICE_SIZE
    ELSE MAX_SAFE_INPUT_SIZE \div 2

\* the assembled context: artifact content, reflections and conversation
ContextLength ==
    fu.asm.artifact_content + fu.asm.reflections + fu.asm.conversation

\* C23: for all sizes of messages, artifact content and reflections the
\* assembled context is at most the budget plus the degrade floor; with a
\* positive remainder the conversation is at most the remainder, otherwise
\* the conversation is at most the floor and an artifact above 60% of the
\* budget is cut.
C23_WithinBudget ==
    fu.pc # "idle" =>
        /\ ContextLength <= MAX_SAFE_INPUT_SIZE + DegradeFloor(fu.node)
        /\ fu.asm.available > 0 => fu.asm.conversation <= fu.asm.available
        /\ fu.asm.available <= 0 =>
            /\ fu.asm.conversation <= DegradeFloor(fu.node)
            /\ (fu.node = "generateFollowup"
                /\ fu.artifact_size * 10 > MAX_SAFE_INPUT_SIZE * 6)
                    => fu.asm.artifact_content < fu.artifact_size

(***************************************************************************)
(* Thread table properties (SpecThreads)                                   *)
(***************************************************************************)

\* C25: in every backend, once delete_thread(t) has returned or raised, the
\* thread is not found, its message log is empty and no artifact version of
\* it can be retrieved (latest, by index, or through the metadata).
C25_DeleteCascades ==
    (call.op = "delete_thread" /\ call.pc = "done") =>
        /\ ~threads[call.t].present
        /\ messages[call.t] = NoMessages
        /\ GetArtifact(call.t) = NoArtifact
        /\ StoredIndices(call.t) = {}

\* the limit most recently updated threads of the store
MostRecent(limit) ==
    {t \in Present :
        Cardinality({u \in Present : threads[u].updated_at > threads[t].updated_at})
            < limit}

\* C26: search_threads(limit=K) returns at most K threads, sorted by
\* updated_at descending, which are the K most recently updated threads of
\* the store; each entry carries only the first message of its thread.
C26_SearchMostRecent ==
    (call.op = "search" /\ call.pc = "done") =>
        /\ Len(call.result) <= call.limit
        /\ \A i \in 1..Len(call.result), j \in 1..Len(call.result) :
              i < j => call.result[i].updated_at >= call.result[j].updated_at
        /\ {call.result[i].thread_id : i \in 1..Len(call.result)}
              = MostRecent(call.limit)
        /\ \A i \in 1..Len(call.result) :
              LET e == call.result[i]
              IN  /\ Len(e.messages) <= 1
                  /\ DOMAIN messages[e.thread_id] # {}
                        => e.messages = <<messages[e.thread_id][0]>>

\* C30: deleting a thread id the store does not hold gives the not-found
\* error and leaves the store as it was, in every backend.
C30_DeleteMissing ==
    (call.op = "delete_thread" /\ call.pc = "done"
     /\ ~call.before.threads[call.t].present) =>
        /\ call.response = "NotFoundError"
        /\ StoreState = call.before

(***************************************************************************)
(* Message log properties (SpecMessages)                                   *)
(***************************************************************************)

\* C27: after set_thread_messages(t, M) has returned, get_thread_messages(t)
\* gives the messages of M in order under the ordinals 0..|M|-1, nothing of
\* the previous log, each with the content of its input and a role among
\* user, assistant, system, tool.
C27_ReplaceWholeLog ==
    (call.op = "set_thread_messages" /\ call.pc = "done" /\ call.returned = "None") =>
        LET got == messages[call.t]
            M == call.input
        IN  /\ DOMAIN got = 0..(Len(M) - 1)
            /\ \A i \in DOMAIN got :
                  /\ got[i].content = M[i + 1].content
                  /\ got[i].role \in StandardRoles

C27_Witness ==
    /\ call.op = "set_thread_messages" /\ call.pc = "done" /\ call.returned = "None"
    /\ backend = "sqlite"
    /\ Len(call.input) = 1
    /\ call.input[1].role = "function"
    /\ DOMAIN call.old = {0, 1}
    /\ DOMAIN messages["t1"] = {0}

\* C28: a message-log replace is atomic: what a concurrent reader sees, and
\* what a write that fails part-way leaves, is either the old log or the new
\* log, never a mix of the two or a partly deleted log.
C28_AtomicReplace ==
    call.op = "set_thread_messages" =>
        LET whole == {call.old, NormalizedLog(call.input)}
        IN  /\ call.seen # <<>> => call.seen[1] \in whole
            /\ call.pc = "done" => messages[call.t] \in whole

(***************************************************************************)
(* Thread update properties (SpecUpdate)                                   *)
(***************************************************************************)

\* the step in which worker w's update request writes to the store
Writes(w) == cl[w].op = "update" /\ cl[w].pc = "read" /\ cl'[w].pc = "done"

\* the artifact versions the store holds for thread t
VersionsOf(t) == <<artifacts[t], thread_artifacts[t]>>

\* C31: update-thread-state shallow-merges: the write of a call that supplies
\* only metadata changes only the supplied metadata keys and leaves the
\* message log and every artifact version as they were; the write of a call
\* that supplies only messages leaves metadata and artifact versions as they
\* were; also when another update ran between the call's read and its write.
C31_ShallowMerge ==
    [][\A w \in Workers :
          Writes(w) =>
            LET t == cl[w].t
                req == cl[w].req
            IN  /\ (req.has_metadata /\ ~req.has_values) =>
                      /\ \A k \in MetaKeys :
                            req.metadata[k] = Absent =>
                                threads'[t].metadata[k] = threads[t].metadata[k]
                      /\ messages'[t] = messages[t]
                      /\ VersionsOf(t)' = VersionsOf(t)
                /\ (req.has_values /\ req.has_messages /\ ~req.has_artifact
                        /\ ~req.has_metadata) =>
                      /\ threads'[t].metadata = threads[t].metadata
                      /\ VersionsOf(t)' = VersionsOf(t)]_vars

\* a store in which every thread has just been created
FreshStore ==
    [threads |-> [t \in Threads |-> Thread(1)],
     messages |-> [t \in Threads |-> NoMessages],
     artifacts |-> [t \in Threads |-> EmptyVersions],
     thread_artifacts |-> [t \in Threads |-> NoArtifact]]

\* create, set-artifact, get on backend b: the artifact the get returns
ReadBack(b, artifact) ==
    ThreadStoreGet(b, SetThreadArtifactOn(b, FreshStore, "t1", artifact), "t1").artifact

\* C32: the thread-storage backends are interchangeable: the same sequence of
\* operations returns the same observable results on the in-memory, SQLite
\* and DynamoDB backends; here create, set-artifact, get with each artifact
\* an update request sends.
C32_Interchangeable ==
    \A w \in Workers :
        (cl[w].op = "update" /\ cl[w].req.has_artifact /\ cl[w].req.artifact.present) =>
            \A b1 \in Backends, b2 \in Backends :
                ReadBack(b1, cl[w].req.artifact) = ReadBack(b2, cl[w].req.artifact)

\* C33: an operation on one thread id (create, set messages, set artifact,
\* update metadata, delete) leaves the metadata, message log, artifact
\* versions and timestamps of every other thread id as they were, however
\* the requests on different threads interleave.
C33_OtherThreadsUnchanged ==
    [][\A t \in Threads :
          (\A w \in Workers : cl'[w] # cl[w] => cl'[w].t # t) =>
              /\ threads'[t] = threads[t]
              /\ messages'[t] = messages[t]
              /\ VersionsOf(t)' = VersionsOf(t)]_vars

C33_Witness ==
    /\ backend = "memory"
    /\ \E w \in Workers :
          /\ cl[w].op = "update" /\ cl[w].pc = "done" /\ cl[w].t = "t2"
          /\ cl[w].req.has_metadata
          /\ cl[w].returned.present
          /\ threads["t2"].metadata # NoMetadata
    /\ threads["t1"] = [Thread(1) EXCEPT !.metadata = [k \in MetaKeys |-> <<"a">>]]
    /\ messages["t1"] = SampleLog(1)

(***************************************************************************)
(* Share-retry properties (SpecShare)                                      *)
(***************************************************************************)

\* the share_run calls made so far
ShareCalls == Len(call.outcomes)

\* the outcomes before the last one are all failures
FailedBefore(n) == \A i \in 1..(n - 1) : call.outcomes[i] \in ShareFailures

\* C34: sharing a run calls the external share operation at most MAX_RETRIES
\* (5) times; it returns the result of the first successful attempt without
\* further calls, waits the fixed delay only between failed attempts, after
\* the 5th consecutive failure raises that failure, and always terminates.
C34_BoundedRetries ==
    /\ [](/\ ShareCalls <= MAX_RETRIES
          /\ call.pc = "returned" =>
                /\ call.outcomes[ShareCalls] = "url"
                /\ call.returned = "url"
                /\ FailedBefore(ShareCalls)
                /\ call.slept = RETRY_DELAY * (ShareCalls - 1)
          /\ call.pc = "raised" =>
                /\ ShareCalls = MAX_RETRIES
                /\ FailedBefore(ShareCalls + 1)
                /\ call.raised = call.outcomes[MAX_RETRIES]
                /\ call.slept = RETRY_DELAY * (MAX_RETRIES - 1)
          /\ call.pc \in {"try", "except"} => call.slept = RETRY_DELAY * (call.attempt - 1))
    /\ [][call.pc \in {"returned", "raised"} => call' = call]_vars
    /\ <>(call.pc \in {"returned", "raised"})

C34_Witness ==
    /\ call.pc = "raised"
    /\ ShareCalls = MAX_RETRIES
    /\ call.raised = "LangSmithError"
    /\ call.outcomes[1] = "ConnectionError"

\* worker w's update request has stored the artifact it sent and got the
\* thread back
StoredArtifact(w) ==
    /\ cl[w].op = "update" /\ cl[w].pc = "done"
    /\ cl[w].req.has_artifact /\ cl[w].req.artifact.present
    /\ ~cl[w].raised /\ cl[w].returned.present

\* C36: storing an artifact and reading the thread back is a round trip:
\* after set_thread_artifact(t, A), A with versions 1..n and currentIndex k,
\* the thread read back has an artifact with currentIndex k and all n
\* versions, so that an edit of the reloaded artifact gets index n + 1.
C36_RoundTrip ==
    \A w \in Workers :
        StoredArtifact(w) =>
            LET A == cl[w].req.artifact
                got == cl[w].returned.artifact
            IN  /\ got.present
                /\ got.currentIndex = A.currentIndex
                /\ got.contents = A.contents
                /\ NewIndex(got.contents) = Len(A.contents) + 1

\* C37: updating a thread with values.artifact explicitly None deletes the
\* thread's artifact, all versions: the update does not fail and afterwards
\* no artifact is returned or stored for the thread.
C37_NoneDeletesArtifact ==
    [][\A w \in Workers :
          (Writes(w) /\ cl[w].req.has_artifact /\ ~cl[w].req.artifact.present) =>
              /\ ~cl'[w].raised
              /\ ~cl'[w].returned.artifact.present
              /\ artifacts'[cl[w].t] = EmptyVersions
              /\ thread_artifacts'[cl[w].t] = NoArtifact]_vars

\* C38: the store never holds orphans: in every reachable state a message
\* log or an artifact version exists only for a thread id whose thread record
\* exists, also after update calls on an unknown or deleted thread id and
\* when a delete comes between an update's existence check and its writes.
C38_NoOrphans ==
    \A t \in Threads :
        ~threads[t].present =>
            /\ messages[t] = NoMessages
            /\ artifacts[t] = EmptyVersions
            /\ thread_artifacts[t] = NoArtifact

(***************************************************************************)
(* Store properties (Spec: concurrent clients; SpecSeq: one client)        *)
(***************************************************************************)
\* no turn is in progress on thread t: every edit made so far has been persisted
Quiescent(t) == \A c \in Clients : cl[c].tid = t => cl[c].pc \in {"idle", "loaded"}

\* C1: after any sequence of edits on a thread, each persisted and reloaded, the
\* stored version indices are exactly 1..n for the n versions the edits produced.
C1_IndicesContiguous ==
    \A t \in Threads : Quiescent(t) => StoredIndices(t) = 1..appended[t]

\* the index of the version a client's turn has just produced
ProducedIndex(c) == cl[c].artifact.contents[Len(cl[c].artifact.contents)].index

\* C2: concurrent turns that append to the same thread never compute the same index,
\* and once they have all written back the thread holds one version per turn.
C2_ConcurrentAppendsDistinct ==
    /\ \A c1 \in Clients, c2 \in Clients :
          (c1 # c2 /\ cl[c1].tid = cl[c2].tid /\ cl[c1].pc = "edited" /\ cl[c2].pc = "edited")
              => ProducedIndex(c1) # ProducedIndex(c2)
    /\ \A t \in Threads : Quiescent(t) => Cardinality(StoredIndices(t)) = appended[t]

\* C3: append-only: a version stored under index i of a thread stays stored, with
\* the same content, across every later write to that thread.
C3_AppendOnly ==
    [][\A t \in Threads : \A i \in StoredIndices(t) :
          /\ i \in StoredIndices(t)'
          /\ StoredVersion(t, i)' = StoredVersion(t, i)]_vars

\* C4: currentIndex refers to an existing version, in the artifact a handler has left
\* in a client's conversation state and in what the store reports for a thread.
C4_CurrentIndexExists ==
    /\ \A c \in Clients :
          cl[c].artifact.present => cl[c].artifact.currentIndex \in Indices(cl[c].artifact)
    /\ \A t \in Threads :
          LET a == GetArtifact(t)
          IN  a.present => a.currentIndex \in Indices(a)
    /\ \A t \in Threads :
          (backend # "sqlite" /\ DOMAIN artifacts[t] # {}) =>
              GetThreadArtifactMetadata(artifacts[t]).current_index
                  \in GetThreadArtifactMetadata(artifacts[t]).version_indices

====
